---- MODULE Spec2Model ----
(***************************************************************************)
(* Photo validation pipeline of Diia.AIContest-AdAstrum.                   *)
(*                                                                         *)
(* The module models                                                       *)
(*   - the result/error model          (src/app/core/errors.py),           *)
(*   - the stage validators            (src/app/validators/step*.py),      *)
(*   - the orchestrator                (src/app/core/pipeline.py),         *)
(*   - the HTTP handlers that call it  (src/app/api/routes.py),            *)
(*   - one AccessoriesValidator object called from several threads         *)
(*     (src/app/validators/step7_accessories.py).                          *)
(*                                                                         *)
(* Specifications: Spec (a request through the pipeline), SpecResult (the  *)
(* result model), SpecAcc (the accessories validator under concurrent      *)
(* calls), SpecStage (a stage validator called directly) and SpecChecks    *)
(* (the pose and centering thresholds over their input range).             *)
(*                                                                         *)
(* Conventions.  A Python dict is a TLA+ function over strings; {} is the  *)
(* empty function <<>>; d.update(m) is  m @@ d.  Python None is the string *)
(* "None" for string-valued fields.  Floating-point measurements are kept  *)
(* as integers (the unit is stated where the number is introduced) and     *)
(* every threshold comparison is done in exact integer arithmetic.         *)
(***************************************************************************)
EXTENDS Integers, Sequences, FiniteSets, TLC

VARIABLES
    request,       \* the call being served: endpoint, pipeline mode, method, flags
    image,         \* the submitted image (its decodability, size and format)
    pc,            \* position of the request: start, loop, stage, finish, done
    idx,           \* 1-based position in the stage list of the running loop
    context,       \* pipeline.py:103  the shared context dict
    all_errors,    \* pipeline.py:108  the running error list (dicts)
    all_metadata,  \* pipeline.py:109  stage name -> metadata (validate only)
    landmarks,     \* pipeline.py:196  (validate_stream only)
    guidance,      \* pipeline.py:197  (validate_stream only)
    response,      \* what the caller receives once pc = "done"
    trace,         \* history: one entry per stage invocation, in call order
    active,        \* history: the stages invoked and not yet returned/thrown
    vr,            \* a ValidationResult under construction (result-model runs)
    calls,         \* history: the stage calls made directly on a validator
    acc,           \* the fields of one AccessoriesValidator object
    threads,       \* the threads calling that object: position and locals
    accLog         \* history: load attempts and model instances of that object

vars == <<request, image, pc, idx, context, all_errors, all_metadata,
          landmarks, guidance, response, trace, active, vr,
          calls, acc, threads, accLog>>

(***************************************************************************)
(* Bounds of the model.                                                    *)
(***************************************************************************)
\* Longest error list handed to the ValidationResult constructor, and the
\* number of add_error calls explored after construction.
MaxErrors == 2

(***************************************************************************)
(* Thresholds of src/config.py.                                            *)
(***************************************************************************)
\* ALLOWED_FORMATS
ALLOWED_FORMATS == {"JPEG", "PNG"}
\* TARGET_ASPECT_RATIO = 1.25, in hundredths
TARGET_ASPECT_RATIO == 125
\* ASPECT_RATIO_TOLERANCE = 0.35, in hundredths
ASPECT_RATIO_TOLERANCE == 35
\* MIN_RESOLUTION, pixels
MIN_RESOLUTION == 600
\* JPEG_BLOCKINESS_THRESHOLD = 15.0, in tenths
JPEG_BLOCKINESS_THRESHOLD == 150
\* BLUR_THRESHOLD = 100.0
BLUR_THRESHOLD == 100
\* MIN_CONTRAST = 30.0
MIN_CONTRAST == 30
\* SHADOW_DIFFERENCE_THRESHOLD
SHADOW_DIFFERENCE_THRESHOLD == 60
\* MAX_YAW = 15.0 degrees
MAX_YAW == 15
\* MAX_PITCH = 10.0 degrees
MAX_PITCH == 10
\* MAX_ROLL = 20.0 degrees
MAX_ROLL == 20
\* MIN_FACE_AREA_RATIO = 0.15, in hundredths
MIN_FACE_AREA_RATIO == 15
\* MAX_FACE_AREA_RATIO = 0.7, in hundredths
MAX_FACE_AREA_RATIO == 70
\* FACE_CENTER_TOLERANCE = 0.15, in hundredths
FACE_CENTER_TOLERANCE == 15
\* HAIR_OCCLUSION_THRESHOLD = 0.3, in hundredths
HAIR_OCCLUSION_THRESHOLD == 30
\* BACKGROUND_UNIFORMITY_THRESHOLD = 10.0
BACKGROUND_UNIFORMITY_THRESHOLD == 10
\* MODE_FULL, MODE_STREAM
MODE_FULL == "full"
MODE_STREAM == "stream"

(***************************************************************************)
(* Result / error model: src/app/core/errors.py                            *)
(***************************************************************************)
EmptyDict == <<>>

Abs(n) == IF n < 0 THEN -n ELSE n
Min2(a, b) == IF a < b THEN a ELSE b
Max2(a, b) == IF a > b THEN a ELSE b

\* ValidationError.__init__ followed by to_dict: the code and the custom
\* message, or the code's default message when no custom message is given.
ValidationError(code, custom_message) ==
    [code |-> code,
     message |-> IF custom_message = "None" THEN "default" ELSE custom_message]

\* ValidationResult.__init__(passed, errors, metadata).  `errors or []` and
\* `metadata or {}` map both None and the empty value to the empty value, so
\* None is passed here as <<>>.  The three fields are stored independently.
ValidationResult(passed, errors, metadata) ==
    [passed |-> passed, errors |-> errors, metadata |-> metadata]

\* ValidationResult.add_error
add_error(result, code, message) ==
    [result EXCEPT !.passed = FALSE,
                   !.errors = Append(@, ValidationError(code, message))]

\* BaseValidator._create_result(passed, metadata)
_create_result(passed, metadata) == ValidationResult(passed, <<>>, metadata)

\* result.metadata = {...}
set_metadata(result, metadata) == [result EXCEPT !.metadata = metadata]

(***************************************************************************)
(* Step 1: src/app/validators/step1_format.py                              *)
(* fmt is PIL's pil_image.format for context['image_bytes'], or "raises"   *)
(* when Image.open raises.  jq is what cv2.imdecode and the blockiness     *)
(* computation give: jq.imdecode is "ok", "none" (imdecode returned None)  *)
(* or "raises"; jq.blockiness is the blockiness in tenths.                 *)
(***************************************************************************)
\* image_utils.calculate_aspect_ratio, in hundredths (rounded down)
calculate_aspect_ratio(width, height) ==
    (100 * Max2(width, height)) \div Min2(width, height)

\* FormatValidator._check_format: the result after the check
_check_format(fmt, result) ==
    IF fmt = "raises"
    THEN add_error(result, "unsupported_file_format", "custom")
    ELSE IF fmt \notin ALLOWED_FORMATS
         THEN add_error(result, "unsupported_file_format", "custom")
         ELSE result

\* FormatValidator._check_format: the returned format (None when it raised)
_check_format_value(fmt) == IF fmt = "raises" THEN "None" ELSE fmt

\* FormatValidator._check_jpeg_quality
_check_jpeg_quality(jq, result) ==
    IF jq.imdecode = "raises" THEN result
    ELSE IF jq.imdecode = "none" THEN result
    ELSE IF jq.blockiness > JPEG_BLOCKINESS_THRESHOLD
         THEN add_error(result, "low_quality_or_too_compressed", "custom")
         ELSE result

\* FormatValidator._check_aspect_ratio:
\*   not (target - tol <= max/min <= target + tol), multiplied out by 100*min
_check_aspect_ratio(width, height, result) ==
    LET mx == Max2(width, height)
        mn == Min2(width, height)
    IN  IF ~(  (TARGET_ASPECT_RATIO - ASPECT_RATIO_TOLERANCE) * mn <= 100 * mx
            /\ 100 * mx <= (TARGET_ASPECT_RATIO + ASPECT_RATIO_TOLERANCE) * mn)
        THEN add_error(result, "wrong_aspect_ratio", "custom")
        ELSE result

\* FormatValidator._check_resolution
_check_resolution(width, height, result) ==
    IF Min2(width, height) < MIN_RESOLUTION
    THEN add_error(result, "resolution_too_low", "custom")
    ELSE result

\* FormatValidator.validate returning after a failed format check
FormatValidator_validate_stops_on_format(img, ctx, jq) ==
    LET r0 == _create_result(TRUE, EmptyDict)
        hasBytes == "image_bytes" \in DOMAIN ctx
        r1 == IF hasBytes THEN _check_format(ctx["image_bytes"], r0) ELSE r0
        r2 == IF hasBytes /\ _check_format_value(ctx["image_bytes"]) = "JPEG"
              THEN _check_jpeg_quality(jq, r1) ELSE r1
        r3 == IF r1.passed
              THEN _check_resolution(img.width, img.height,
                       _check_aspect_ratio(img.width, img.height, r2))
              ELSE r2
    IN  set_metadata(r3,
            [width |-> img.width,
             height |-> img.height,
             aspect_ratio |-> calculate_aspect_ratio(img.width, img.height),
             min_dimension |-> Min2(img.width, img.height),
             max_dimension |-> Max2(img.width, img.height)])

\* FormatValidator.validate
FormatValidator_validate(img, ctx, jq) ==
    LET r0 == _create_result(TRUE, EmptyDict)
        hasBytes == "image_bytes" \in DOMAIN ctx
        r1 == IF hasBytes THEN _check_format(ctx["image_bytes"], r0) ELSE r0
        r2 == IF hasBytes /\ _check_format_value(ctx["image_bytes"]) = "JPEG"
              THEN _check_jpeg_quality(jq, r1) ELSE r1
        r3 == _check_aspect_ratio(img.width, img.height, r2)
        r4 == _check_resolution(img.width, img.height, r3)
    IN  set_metadata(r4,
            [width |-> img.width,
             height |-> img.height,
             aspect_ratio |-> calculate_aspect_ratio(img.width, img.height),
             min_dimension |-> Min2(img.width, img.height),
             max_dimension |-> Max2(img.width, img.height)])

(***************************************************************************)
(* Step 2: src/app/validators/step2_quality.py                             *)
(* q holds the measurements OpenCV/NumPy give on the image: q.variance     *)
(* (Laplacian variance), q.mean_brightness, q.low_pct and q.high_pct (the  *)
(* percentage of pixels below / above the brightness cut-offs), q.contrast *)
(* (std of luminance), q.shadow_full and q.shadow_face (max - min of the   *)
(* quadrant means of the whole image / of the face region).                *)
(***************************************************************************)
\* QualityValidator._check_blur
_check_blur(q, result) ==
    IF q.variance < BLUR_THRESHOLD
    THEN add_error(result, "image_blurry_or_out_of_focus", "custom")
    ELSE result

\* QualityValidator._check_exposure_contrast
_check_exposure_contrast(q, result) ==
    LET r1 == IF q.low_pct > 50 \/ q.mean_brightness < 60
              THEN add_error(result, "insufficient_lighting", "custom")
              ELSE result
        r2 == IF q.high_pct > 50 \/ q.mean_brightness > 200
              THEN add_error(r1, "overexposed_or_too_bright", "custom")
              ELSE r1
    IN  IF q.contrast < MIN_CONTRAST
        THEN add_error(r2, "low_contrast", "custom")
        ELSE r2

\* config.BRIGHTNESS_LOW_THRESHOLD and config.BRIGHTNESS_HIGH_THRESHOLD
BRIGHTNESS_LOW_THRESHOLD == 50
BRIGHTNESS_HIGH_THRESHOLD == 220

\* np.sum over the pixels of a grayscale image, given as a sequence of
\* values in 0..255
RECURSIVE np_sum(_)
np_sum(gray) == IF gray = <<>> THEN 0 ELSE gray[1] + np_sum(Tail(gray))

\* np.sum(gray_image < t) and np.sum(gray_image > t)
count_below(gray, t) == Cardinality({ i \in 1..Len(gray) : gray[i] < t })
count_above(gray, t) == Cardinality({ i \in 1..Len(gray) : gray[i] > t })

\* np.std(gray_image) < limit, multiplied out: size * sum(x^2) - sum(x)^2
\* against (limit * size)^2
std_below(gray, limit) ==
    LET size == Len(gray)
        squares == np_sum([i \in 1..size |-> gray[i] * gray[i]])
    IN  size * squares - np_sum(gray) * np_sum(gray)
            < limit * limit * size * size

\* _check_exposure_contrast on pixels, if a ratio of one half counted
_check_exposure_contrast_pixels_half(gray, result) ==
    LET size == Len(gray)
        r1 == IF \/ 2 * count_below(gray, BRIGHTNESS_LOW_THRESHOLD) >= size
                 \/ np_sum(gray) < 60 * size
              THEN add_error(result, "insufficient_lighting", "custom")
              ELSE result
        r2 == IF \/ 2 * count_above(gray, BRIGHTNESS_HIGH_THRESHOLD) >= size
                 \/ np_sum(gray) > 200 * size
              THEN add_error(r1, "overexposed_or_too_bright", "custom")
              ELSE r1
    IN  IF std_below(gray, MIN_CONTRAST)
        THEN add_error(r2, "low_contrast", "custom")
        ELSE r2

\* QualityValidator._check_exposure_contrast on the pixels themselves: the
\* ratios and the mean are compared exactly, multiplied out by the size
_check_exposure_contrast_pixels(gray, result) ==
    LET size == Len(gray)
        r1 == IF \/ 2 * count_below(gray, BRIGHTNESS_LOW_THRESHOLD) > size
                 \/ np_sum(gray) < 60 * size
              THEN add_error(result, "insufficient_lighting", "custom")
              ELSE result
        r2 == IF \/ 2 * count_above(gray, BRIGHTNESS_HIGH_THRESHOLD) > size
                 \/ np_sum(gray) > 200 * size
              THEN add_error(r1, "overexposed_or_too_bright", "custom")
              ELSE r1
    IN  IF std_below(gray, MIN_CONTRAST)
        THEN add_error(r2, "low_contrast", "custom")
        ELSE r2

\* QualityValidator._check_shadows on a region whose quadrant spread is max_diff
_check_shadows(max_diff, result) ==
    IF max_diff > SHADOW_DIFFERENCE_THRESHOLD
    THEN add_error(result, "strong_shadows_on_face", "custom")
    ELSE result

\* QualityValidator._extract_face_region: the clamped box <<x, y, w, h>>, or
\* <<>> for None
_extract_face_region(img, bbox) ==
    LET x == Max2(0, Min2(bbox[1], img.width))
        y == Max2(0, Min2(bbox[2], img.height))
        w == Min2(bbox[3], img.width - x)
        h == Min2(bbox[4], img.height - y)
    IN  IF w > 0 /\ h > 0 THEN <<x, y, w, h>> ELSE <<>>

\* QualityValidator.validate
QualityValidator_validate(img, ctx, q) ==
    LET r0 == _create_result(TRUE, EmptyDict)
        r1 == _check_blur(q, r0)
        r2 == _check_exposure_contrast(q, r1)
        useFace == "face_bbox" \in DOMAIN ctx
        region == IF useFace THEN _extract_face_region(img, ctx["face_bbox"])
                  ELSE <<>>
        r3 == IF useFace
              THEN (IF region # <<>> THEN _check_shadows(q.shadow_face, r2)
                    ELSE r2)
              ELSE _check_shadows(q.shadow_full, r2)
        shadow_score == IF useFace
                        THEN (IF region # <<>> THEN q.shadow_face ELSE 0)
                        ELSE q.shadow_full
    IN  set_metadata(r3,
            [blur_score |-> q.variance,
             brightness_score |-> q.mean_brightness,
             contrast_score |-> q.contrast,
             shadow_score |-> shadow_score])

(***************************************************************************)
(* Step 3: src/app/validators/step3_face.py                                *)
(* f holds what MediaPipe gives: f.detections (number of detections),      *)
(* f.box (the first detection's relative box <<xmin, ymin, width, height>> *)
(* in hundredths of the image size), f.mesh (whether the face mesh returned*)
(* landmarks) and f.score (the detection confidence, or "None").           *)
(***************************************************************************)
\* Python int(): truncation toward zero of a / b, b > 0
IntTrunc(a, b) == IF a >= 0 THEN a \div b ELSE -((-a) \div b)

\* FaceDetectionValidator._get_bounding_box
_get_bounding_box(box, image_width, image_height) ==
    LET x0 == IntTrunc(box[1] * image_width, 100)
        y0 == IntTrunc(box[2] * image_height, 100)
        w0 == IntTrunc(box[3] * image_width, 100)
        h0 == IntTrunc(box[4] * image_height, 100)
        x == Max2(0, x0)
        y == Max2(0, y0)
    IN  <<x, y, Min2(w0, image_width - x), Min2(h0, image_height - y)>>

\* FaceDetectionValidator.validate taking the first of several detections
FaceDetectionValidator_validate_first_of_many(img, ctx, f) ==
    LET r0 == _create_result(TRUE, EmptyDict)
    IN  IF f.detections = 0
        THEN add_error(r0, "no_face_detected", "None")
        ELSE set_metadata(r0,
                [face_detected |-> TRUE,
                 face_count |-> 1,
                 face_bbox |-> _get_bounding_box(f.box, img.width, img.height),
                 landmarks |-> IF f.mesh THEN "landmarks_2d" ELSE "None",
                 landmarks_3d |-> IF f.mesh THEN "landmarks_3d" ELSE "None",
                 detection_confidence |-> f.score])

\* FaceDetectionValidator.validate, line 71: self.face_mesh.process is
\* called only past the two early returns
FaceDetectionValidator_mesh_processed(f) ==
    ~(f.detections = 0) /\ ~(f.detections > 1)

\* FaceDetectionValidator.validate
FaceDetectionValidator_validate(img, ctx, f) ==
    LET r0 == _create_result(TRUE, EmptyDict)
    IN  IF f.detections = 0
        THEN add_error(r0, "no_face_detected", "None")
        ELSE IF f.detections > 1
        THEN add_error(r0, "more_than_one_person_in_photo", "custom")
        ELSE set_metadata(r0,
                [face_detected |-> TRUE,
                 face_count |-> 1,
                 face_bbox |-> _get_bounding_box(f.box, img.width, img.height),
                 landmarks |-> IF f.mesh THEN "landmarks_2d" ELSE "None",
                 landmarks_3d |-> IF f.mesh THEN "landmarks_3d" ELSE "None",
                 detection_confidence |-> f.score])

(***************************************************************************)
(* Step 4: src/app/validators/step4_pose.py                                *)
(* p holds what OpenCV gives on the landmarks: p.pnp (solvePnP's success   *)
(* flag) and p.yaw, p.pitch, p.roll (the Euler angles of the rotation, in  *)
(* whole degrees).                                                         *)
(***************************************************************************)
\* len(landmarks): MediaPipe's face mesh has 468 points
LandmarkCount(lm) == IF lm = "landmarks_2d" THEN 468 ELSE 0

\* PoseEstimationValidator.landmark_indices
landmark_indices == {1, 152, 263, 33, 287, 57}

\* PoseEstimationValidator._get_image_points: TRUE when it returns, FALSE
\* when it raises ValueError (an index out of range)
_get_image_points(lm) == \A i \in landmark_indices : i < LandmarkCount(lm)

\* _check_pose_angles rejecting angles equal to a maximum
_check_pose_angles_inclusive(yaw, pitch, roll, result) ==
    LET r1 == IF Abs(yaw) >= MAX_YAW
              THEN add_error(result, "face_not_looking_straight_at_camera", "custom")
              ELSE result
        r2 == IF Abs(pitch) >= MAX_PITCH
              THEN add_error(r1, "face_not_looking_straight_at_camera", "custom")
              ELSE r1
    IN  IF Abs(roll) >= MAX_ROLL
        THEN add_error(r2, "head_is_tilted", "custom")
        ELSE r2

\* PoseEstimationValidator._check_pose_angles
_check_pose_angles(yaw, pitch, roll, result) ==
    LET r1 == IF Abs(yaw) > MAX_YAW
              THEN add_error(result, "face_not_looking_straight_at_camera", "custom")
              ELSE result
        r2 == IF Abs(pitch) > MAX_PITCH
              THEN add_error(r1, "face_not_looking_straight_at_camera", "custom")
              ELSE r1
    IN  IF Abs(roll) > MAX_ROLL
        THEN add_error(r2, "head_is_tilted", "custom")
        ELSE r2

\* PoseEstimationValidator.validate if null landmarks were passed over
PoseEstimationValidator_validate_null_landmarks_pass(img, ctx, p) ==
    LET r0 == _create_result(TRUE, EmptyDict)
    IN  IF "landmarks" \notin DOMAIN ctx
        THEN add_error(r0, "no_face_detected", "custom")
        ELSE IF ctx["landmarks"] = "None"
        THEN r0
        ELSE IF ~_get_image_points(ctx["landmarks"])
        THEN add_error(r0, "no_face_detected", "custom")
        ELSE IF ~p.pnp
        THEN add_error(r0, "face_not_looking_straight_at_camera", "custom")
        ELSE set_metadata(_check_pose_angles(p.yaw, p.pitch, p.roll, r0),
                [yaw |-> p.yaw,
                 pitch |-> p.pitch,
                 roll |-> p.roll,
                 rotation_vector |-> "rotation_vector",
                 translation_vector |-> "translation_vector"])

\* PoseEstimationValidator.validate
PoseEstimationValidator_validate(img, ctx, p) ==
    LET r0 == _create_result(TRUE, EmptyDict)
    IN  IF "landmarks" \notin DOMAIN ctx
        THEN add_error(r0, "no_face_detected", "custom")
        ELSE IF ctx["landmarks"] = "None"
        THEN add_error(r0, "no_face_detected", "custom")
        ELSE IF ~_get_image_points(ctx["landmarks"])
        THEN add_error(r0, "no_face_detected", "custom")
        ELSE IF ~p.pnp
        THEN add_error(r0, "face_not_looking_straight_at_camera", "custom")
        ELSE set_metadata(_check_pose_angles(p.yaw, p.pitch, p.roll, r0),
                [yaw |-> p.yaw,
                 pitch |-> p.pitch,
                 roll |-> p.roll,
                 rotation_vector |-> "rotation_vector",
                 translation_vector |-> "translation_vector"])

(***************************************************************************)
(* Step 5: src/app/validators/step5_geometry.py                            *)
(* g holds what the edge detector gives around the jawline: g.raises (the  *)
(* occlusion computation raised) and g.density (the mean edge density, in  *)
(* hundredths).                                                            *)
(***************************************************************************)
\* GeometryValidator._check_face_size:  face_area / image_area against the
\* ratios, multiplied out by 100 * image_area
_check_face_size(bbox, img_width, img_height, result) ==
    LET face_area == bbox[3] * bbox[4]
        image_area == img_width * img_height
        r1 == IF 100 * face_area < MIN_FACE_AREA_RATIO * image_area
              THEN add_error(result, "face_too_small_in_frame", "custom")
              ELSE result
    IN  IF 100 * face_area > MAX_FACE_AREA_RATIO * image_area
        THEN add_error(r1, "face_too_close_or_cropped", "custom")
        ELSE r1

\* the returned face_ratio, in thousandths (rounded down)
face_ratio(bbox, img_width, img_height) ==
    (1000 * bbox[3] * bbox[4]) \div (img_width * img_height)

\* |x + w/2 - W/2| / W, in thousandths (rounded down)
center_offset(x, w, img_dim) ==
    (1000 * Abs(2 * x + w - img_dim)) \div (2 * img_dim)

\* offset > FACE_CENTER_TOLERANCE, multiplied out by 200 * W
OffCenter(x, w, img_dim) ==
    100 * Abs(2 * x + w - img_dim) > 2 * FACE_CENTER_TOLERANCE * img_dim

\* _check_face_centering reporting each axis on its own
_check_face_centering_per_axis(bbox, img_width, img_height, result) ==
    LET r1 == IF OffCenter(bbox[1], bbox[3], img_width)
              THEN add_error(result, "face_not_centered", "custom")
              ELSE result
    IN  IF OffCenter(bbox[2], bbox[4], img_height)
        THEN add_error(r1, "face_not_centered", "custom")
        ELSE r1

\* GeometryValidator._check_face_centering
_check_face_centering(bbox, img_width, img_height, result) ==
    IF OffCenter(bbox[1], bbox[3], img_width)
       \/ OffCenter(bbox[2], bbox[4], img_height)
    THEN add_error(result, "face_not_centered", "custom")
    ELSE result

\* GeometryValidator._check_hair_occlusion: the returned score
occlusion_value(g) == IF g.raises THEN 0 ELSE g.density

\* GeometryValidator._check_hair_occlusion: the result after the check
_check_hair_occlusion(g, result) ==
    IF g.raises THEN result
    ELSE IF g.density > HAIR_OCCLUSION_THRESHOLD
         THEN add_error(result, "hair_covers_part_of_face", "custom")
         ELSE result

\* GeometryValidator.validate if a missing face_bbox were passed over
GeometryValidator_validate_no_bbox_passes(img, ctx, g) ==
    LET r0 == _create_result(TRUE, EmptyDict)
    IN  IF "face_bbox" \notin DOMAIN ctx
        THEN r0
        ELSE
          LET bbox == ctx["face_bbox"]
              r1 == _check_face_size(bbox, img.width, img.height, r0)
              r2 == _check_face_centering(bbox, img.width, img.height, r1)
              hasLm == /\ "landmarks" \in DOMAIN ctx
                       /\ ctx["landmarks"] # "None"
                       /\ LandmarkCount(ctx["landmarks"]) > 0
              r3 == IF hasLm THEN _check_hair_occlusion(g, r2) ELSE r2
          IN  set_metadata(r3,
                [face_size_ratio |-> face_ratio(bbox, img.width, img.height),
                 center_offset_x |-> center_offset(bbox[1], bbox[3], img.width),
                 center_offset_y |-> center_offset(bbox[2], bbox[4], img.height),
                 occlusion_score |-> IF hasLm THEN occlusion_value(g) ELSE 0])

\* GeometryValidator.validate.  `context['landmarks']` is truthy when it is
\* neither None nor an empty list.
GeometryValidator_validate(img, ctx, g) ==
    LET r0 == _create_result(TRUE, EmptyDict)
    IN  IF "face_bbox" \notin DOMAIN ctx
        THEN add_error(r0, "no_face_detected", "custom")
        ELSE
          LET bbox == ctx["face_bbox"]
              r1 == _check_face_size(bbox, img.width, img.height, r0)
              r2 == _check_face_centering(bbox, img.width, img.height, r1)
              hasLm == /\ "landmarks" \in DOMAIN ctx
                       /\ ctx["landmarks"] # "None"
                       /\ LandmarkCount(ctx["landmarks"]) > 0
              r3 == IF hasLm THEN _check_hair_occlusion(g, r2) ELSE r2
          IN  set_metadata(r3,
                [face_size_ratio |-> face_ratio(bbox, img.width, img.height),
                 center_offset_x |-> center_offset(bbox[1], bbox[3], img.width),
                 center_offset_y |-> center_offset(bbox[2], bbox[4], img.height),
                 occlusion_score |-> IF hasLm THEN occlusion_value(g) ELSE 0])

(***************************************************************************)
(* Step 6: src/app/validators/step6_background.py                          *)
(* b holds what the segmentation network and the mask post-processing      *)
(* give: b.mask (FALSE when _segment_image returns None), b.person_count,  *)
(* b.variance (background colour spread) and b.object_pct (percentage of   *)
(* the pixels in classes other than background and person).                *)
(***************************************************************************)
\* BackgroundValidator._check_background_uniformity
_check_background_uniformity(b, result) ==
    IF b.variance > BACKGROUND_UNIFORMITY_THRESHOLD
    THEN add_error(result, "background_not_uniform", "custom")
    ELSE result

\* BackgroundValidator._check_extraneous_objects
_check_extraneous_objects(b, result) ==
    IF b.object_pct > 5
    THEN add_error(result, "extraneous_objects_in_background", "custom")
    ELSE result

\* BackgroundValidator.validate if a missing mask were reported as an error
BackgroundValidator_validate_mask_required(img, ctx, b) ==
    LET r0 == _create_result(TRUE, EmptyDict)
    IN  IF ~b.mask
        THEN set_metadata(
                 add_error(r0, "extraneous_objects_in_background", "custom"),
                 [segmentation_available |-> FALSE])
        ELSE
          LET r1 == IF b.person_count > 1
                    THEN add_error(r0, "extraneous_people_in_background", "custom")
                    ELSE r0
              r2 == _check_background_uniformity(b, r1)
              r3 == _check_extraneous_objects(b, r2)
          IN  set_metadata(r3,
                [segmentation_available |-> TRUE,
                 person_count |-> b.person_count,
                 background_variance |-> b.variance,
                 extraneous_object_score |-> b.object_pct])

\* BackgroundValidator.validate
BackgroundValidator_validate(img, ctx, b) ==
    LET r0 == _create_result(TRUE, EmptyDict)
    IN  IF ~b.mask
        THEN set_metadata(r0, [segmentation_available |-> FALSE])
        ELSE
          LET r1 == IF b.person_count > 1
                    THEN add_error(r0, "extraneous_people_in_background", "custom")
                    ELSE r0
              r2 == _check_background_uniformity(b, r1)
              r3 == _check_extraneous_objects(b, r2)
          IN  set_metadata(r3,
                [segmentation_available |-> TRUE,
                 person_count |-> b.person_count,
                 background_variance |-> b.variance,
                 extraneous_object_score |-> b.object_pct])

(***************************************************************************)
(* Inputs explored.  Every stage computes its result from the image, the   *)
(* context and the outputs of its collaborators; the sets below are the    *)
(* collaborator outputs the model draws from.                              *)
(***************************************************************************)
\* The submitted images: whether decoding succeeds, the pixel size, and the
\* format PIL sniffs from the raw bytes ("raises" when Image.open raises on
\* the bytes the pipeline decoded itself).
Images ==
    { [decodable |-> FALSE, width |-> 600, height |-> 800, format |-> "raises"],
      [decodable |-> TRUE, width |-> 600, height |-> 800, format |-> "JPEG"],
      [decodable |-> TRUE, width |-> 600, height |-> 800, format |-> "PNG"],
      [decodable |-> TRUE, width |-> 600, height |-> 800, format |-> "GIF"],
      [decodable |-> TRUE, width |-> 600, height |-> 800, format |-> "raises"],
      [decodable |-> TRUE, width |-> 480, height |-> 1200, format |-> "PNG"] }

JpegInputs ==
    { [imdecode |-> "ok", blockiness |-> 40],
      [imdecode |-> "ok", blockiness |-> 200],
      [imdecode |-> "none", blockiness |-> 0],
      [imdecode |-> "raises", blockiness |-> 0] }

QualityInputs ==
    { [variance |-> 250, mean_brightness |-> 120, low_pct |-> 5, high_pct |-> 5,
       contrast |-> 45, shadow_full |-> 20, shadow_face |-> 20],
      [variance |-> 40, mean_brightness |-> 120, low_pct |-> 5, high_pct |-> 5,
       contrast |-> 45, shadow_full |-> 20, shadow_face |-> 20],
      [variance |-> 250, mean_brightness |-> 45, low_pct |-> 70, high_pct |-> 0,
       contrast |-> 20, shadow_full |-> 20, shadow_face |-> 20],
      [variance |-> 250, mean_brightness |-> 210, low_pct |-> 0, high_pct |-> 60,
       contrast |-> 45, shadow_full |-> 75, shadow_face |-> 20] }

FaceInputs ==
    { [detections |-> n, box |-> bx, mesh |-> m, score |-> "score"] :
        n \in 0..2,
        bx \in { <<25, 20, 50, 50>>, <<-5, 0, 30, 20>> },
        m \in BOOLEAN }

PoseInputs ==
    { [pnp |-> FALSE, yaw |-> 0, pitch |-> 0, roll |-> 0],
      [pnp |-> TRUE, yaw |-> 0, pitch |-> 0, roll |-> 0],
      [pnp |-> TRUE, yaw |-> 15, pitch |-> -10, roll |-> 20],
      [pnp |-> TRUE, yaw |-> -16, pitch |-> 11, roll |-> 0],
      [pnp |-> TRUE, yaw |-> 0, pitch |-> 0, roll |-> -21] }

GeometryInputs ==
    { [raises |-> TRUE, density |-> 0],
      [raises |-> FALSE, density |-> 10],
      [raises |-> FALSE, density |-> 40] }

BackgroundInputs ==
    { [mask |-> FALSE, person_count |-> 0, variance |-> 0, object_pct |-> 0],
      [mask |-> TRUE, person_count |-> 1, variance |-> 5, object_pct |-> 0],
      [mask |-> TRUE, person_count |-> 2, variance |-> 12, object_pct |-> 0],
      [mask |-> TRUE, person_count |-> 1, variance |-> 5, object_pct |-> 8] }

\* validator.validate(image, context) for the stage called `name`: the
\* results the stage can return on this image and context.
StageResults(name, img, ctx) ==
    CASE name = "format" ->
           { FormatValidator_validate(img, ctx, jq) : jq \in JpegInputs }
      [] name = "quality" ->
           { QualityValidator_validate(img, ctx, q) : q \in QualityInputs }
      [] name = "face" ->
           { FaceDetectionValidator_validate(img, ctx, f) : f \in FaceInputs }
      [] name = "pose" ->
           { PoseEstimationValidator_validate(img, ctx, p) : p \in PoseInputs }
      [] name = "geometry" ->
           { GeometryValidator_validate(img, ctx, g) : g \in GeometryInputs }
      [] name = "background" ->
           { BackgroundValidator_validate(img, ctx, b) : b \in BackgroundInputs }

(***************************************************************************)
(* Orchestrator: src/app/core/pipeline.py                                  *)
(***************************************************************************)
\* _initialize_validators with Face appended before Quality
_initialize_validators_face_first(mode) ==
    <<"format", "face", "quality", "pose", "geometry">>
        \o (IF mode = MODE_FULL THEN <<"background">> ELSE <<>>)

\* _initialize_validators with Quality appended after Pose
_initialize_validators_quality_after_pose(mode) ==
    <<"format", "face", "pose", "quality", "geometry">>
        \o (IF mode = MODE_FULL THEN <<"background">> ELSE <<>>)

\* ValidationPipeline._initialize_validators: the stage names, in list order
_initialize_validators(mode) ==
    <<"format", "quality", "face", "pose", "geometry">>
        \o (IF mode = MODE_FULL THEN <<"background">> ELSE <<>>)

\* validate_stream iterating over the whole stage list
lightweight_validators_unfiltered(validators) == validators

IsLightweight(name) == name \notin {"background", "accessories"}

\* validate_stream: lightweight_validators
lightweight_validators(validators) == SelectSeq(validators, IsLightweight)

\* the list the running method iterates over
StageList ==
    IF request.op = "validate"
    THEN _initialize_validators(request.mode)
    ELSE lightweight_validators(_initialize_validators(request.mode))

\* [error.to_dict() for error in result.errors]
to_dicts(errors) == [i \in 1..Len(errors) |-> errors[i]]

\* validate putting the errors of a stage in front of the running list
validate_collect_prepended(errors, result) ==
    IF ~result.passed THEN to_dicts(result.errors) \o errors ELSE errors

\* validate: if not result.passed: all_errors.extend(...)
validate_collect(errors, result) ==
    IF ~result.passed THEN errors \o to_dicts(result.errors) ELSE errors

\* validate_stream putting the errors of a stage in front of the running list
stream_collect_prepended(errors, result) ==
    IF ~result.passed THEN to_dicts(result.errors) \o errors ELSE errors

\* validate_stream: if not result.passed: all_errors.extend(...)
stream_collect(errors, result) ==
    IF ~result.passed THEN errors \o to_dicts(result.errors) ELSE errors

\* validate storing the metadata of passing stages only
validate_store_metadata_if_passed(metadata, name, result) ==
    IF result.passed THEN (name :> result.metadata) @@ metadata ELSE metadata

\* validate: all_metadata[name] = result.metadata
validate_store_metadata(metadata, name, result) ==
    (name :> result.metadata) @@ metadata

\* validate's except branch recording nothing
validate_store_failure_dropped(metadata, name) == metadata

\* validate: the except branch, all_metadata[name] = {error, validator_failed}
validate_store_failure(metadata, name) ==
    (name :> [error |-> "str(e)", validator_failed |-> TRUE]) @@ metadata

\* the context left as it was after a stage returned
context_update_skipped(ctx, metadata) == ctx

\* validate and validate_stream: context.update(result.metadata)
context_update(ctx, metadata) == metadata @@ ctx

\* validate leaving the loop after any failed stage
validate_early_exit_any_failure(name, result) == ~result.passed

\* validate's early exits without the one on the Face stage
validate_early_exit_format_only(name, result) ==
    name = "format" /\ ~result.passed

\* validate: the two early exits after a stage returned
validate_early_exit(name, result) ==
    \/ name = "format" /\ ~result.passed
    \/ name = "face" /\ ~result.passed

\* validate_stream: the two early exits after a stage returned
stream_early_exit(name, result) ==
    \/ name = "format" /\ ~result.passed
    \/ name = "face" /\ ~result.passed

\* validate's status with the test inverted
validate_status_inverted(errors) ==
    IF Len(errors) = 0 THEN "fail" ELSE "success"

\* validate: status = 'success' if len(all_errors) == 0 else 'fail'
validate_status(errors) == IF Len(errors) = 0 THEN "success" ELSE "fail"

\* validate_stream: status = 'success' if len(all_errors) == 0 else 'fail'
stream_status(errors) == IF Len(errors) = 0 THEN "success" ELSE "fail"

\* validate_stream, lines 199-236, as a function: the errors list after the
\* loop over `names` from stage k on, when no stage throws and stage j
\* returns outputs[j]
RECURSIVE stream_loop(_, _, _, _)
stream_loop(names, outputs, k, errors) ==
    IF k > Len(names) \/ k > Len(outputs) THEN errors
    ELSE LET collected == stream_collect(errors, outputs[k])
         IN  IF stream_early_exit(names[k], outputs[k]) THEN collected
             ELSE stream_loop(names, outputs, k + 1, collected)

\* validate: the response of the decode-failure branch
validate_decode_failure ==
    [kind |-> "validate",
     status |-> "fail",
     errors |-> << [code |-> "invalid_image", message |-> "custom"] >>,
     metadata |-> EmptyDict]

\* validate_stream's decode-failure response reporting a format error
stream_decode_failure_wrong_code ==
    [kind |-> "validate_stream",
     status |-> "fail",
     errors |-> << [code |-> "unsupported_file_format", message |-> "custom"] >>,
     landmarks |-> "None",
     guidance |-> EmptyDict]

\* validate_stream: the response of the decode-failure branch
stream_decode_failure ==
    [kind |-> "validate_stream",
     status |-> "fail",
     errors |-> << [code |-> "invalid_image", message |-> "custom"] >>,
     landmarks |-> "None",
     guidance |-> EmptyDict]

\* dict.get(key): the value, or None
Get(d, key) == IF key \in DOMAIN d THEN d[key] ELSE "None"

\* validate_stream if it recorded the face box of every Face result
stream_guidance_any_face(gd, name, result) ==
    LET g1 == IF name = "face"
              THEN ("face_bbox" :> Get(result.metadata, "face_bbox")) @@ gd
              ELSE gd
        g2 == IF name = "pose"
              THEN ("pose" :> [yaw |-> Get(result.metadata, "yaw"),
                               pitch |-> Get(result.metadata, "pitch"),
                               roll |-> Get(result.metadata, "roll")]) @@ g1
              ELSE g1
    IN  IF name = "geometry"
        THEN ("centering" :>
                 [offset_x |-> Get(result.metadata, "center_offset_x"),
                  offset_y |-> Get(result.metadata, "center_offset_y")])
             @@ ("face_size_ratio" :> Get(result.metadata, "face_size_ratio"))
             @@ g2
        ELSE g2

\* validate_stream: the guidance extracted from the result of stage `name`
stream_guidance(gd, name, result) ==
    LET g1 == IF name = "face" /\ "landmarks" \in DOMAIN result.metadata
              THEN ("face_bbox" :> Get(result.metadata, "face_bbox")) @@ gd
              ELSE gd
        g2 == IF name = "pose"
              THEN ("pose" :> [yaw |-> Get(result.metadata, "yaw"),
                               pitch |-> Get(result.metadata, "pitch"),
                               roll |-> Get(result.metadata, "roll")]) @@ g1
              ELSE g1
    IN  IF name = "geometry"
        THEN ("centering" :>
                 [offset_x |-> Get(result.metadata, "center_offset_x"),
                  offset_y |-> Get(result.metadata, "center_offset_y")])
             @@ ("face_size_ratio" :> Get(result.metadata, "face_size_ratio"))
             @@ g2
        ELSE g2

\* validate_stream: the landmarks extracted from the result of stage `name`
stream_landmarks(lm, name, result) ==
    IF name = "face" /\ "landmarks" \in DOMAIN result.metadata
    THEN Get(result.metadata, "landmarks")
    ELSE lm

(***************************************************************************)
(* Step 7: src/app/validators/step7_accessories.py                         *)
(* One AccessoriesValidator object called from several threads.  None is   *)
(* 0 for _model and _tokenizer; a loaded model is the number of the        *)
(* instance AutoModel.from_pretrained constructed (1 for the first one),   *)
(* and a loaded tokenizer is 1.  _model_lock is 0 when free and the        *)
(* holder's thread number otherwise.                                       *)
(***************************************************************************)
\* Number of threads that call validate on the object.
NumThreads == 2
\* Number of validate calls each thread makes.
MaxValidateCalls == 2

Threads == 1..NumThreads

\* AccessoriesValidator.__init__; cuda_available is what
\* torch.cuda.is_available() answers on the machine
AccessoriesValidator_init(enabled, cuda_available) ==
    [enabled |-> enabled,
     device |-> "cuda",
     cuda_available |-> cuda_available,
     _model |-> 0,
     _tokenizer |-> 0,
     _model_lock |-> 0,
     _inference_device |-> "cpu",
     _load_failed |-> FALSE,
     _attn_impl |-> "unset"]

\* AccessoriesValidator._resolve_device (no MPS backend on the machine)
_resolve_device(self) == IF self.cuda_available THEN "cuda" ELSE "cpu"

\* A response text is a sequence of tokens: the braces, the members of a
\* JSON object (separators included), and words outside JSON syntax.
Tokens ==
    { "{", "}",
      "accessories_detected:true", "accessories_detected:false",
      "filters_detected:false",
      "hat", "edited", "ok" }

\* json: the key and the value of a member token
MemberTokens ==
    { "accessories_detected:true", "accessories_detected:false",
      "filters_detected:false" }

MemberKey(tok) ==
    IF tok = "filters_detected:false" THEN "filters_detected"
    ELSE "accessories_detected"

MemberValue(tok) == tok = "accessories_detected:true"

\* str.find and str.rfind of a token, 0 where Python answers -1
find(text, tok) ==
    IF \E i \in 1..Len(text) : text[i] = tok
    THEN CHOOSE i \in 1..Len(text) :
             text[i] = tok /\ \A j \in 1..(i - 1) : text[j] # tok
    ELSE 0

rfind(text, tok) ==
    IF \E i \in 1..Len(text) : text[i] = tok
    THEN CHOOSE i \in 1..Len(text) :
             text[i] = tok /\ \A j \in (i + 1)..Len(text) : text[j] # tok
    ELSE 0

\* _parse_response, lines 249-251: text[text.find("{") : text.rfind("}") + 1],
\* or <<>> for None and for the empty slice
json_candidate(text) ==
    IF find(text, "{") > 0 /\ rfind(text, "}") > 0
    THEN SubSeq(text, find(text, "{"), rfind(text, "}"))
    ELSE <<>>

\* json.loads answers a dict on an object: a brace, members, a brace
json_loads_ok(cand) ==
    /\ Len(cand) >= 2
    /\ cand[1] = "{"
    /\ cand[Len(cand)] = "}"
    /\ \A i \in 2..(Len(cand) - 1) : cand[i] \in MemberTokens

\* _to_bool(data.get(key) or ...): the value of the last member with the
\* key, False without one
json_get_bool(cand, key) ==
    LET at == { i \in 2..(Len(cand) - 1) : MemberKey(cand[i]) = key }
    IN  IF at = {} THEN FALSE
        ELSE MemberValue(cand[CHOOSE i \in at : \A j \in at : j <= i])

\* any(keyword in lowered for keyword in accessories_keywords)
has_accessories_keyword(text) ==
    \E i \in 1..Len(text) : text[i] = "hat"

\* any(keyword in lowered for keyword in filter_keywords): "filter" is part
\* of the key filters_detected
has_filter_keyword(text) ==
    \E i \in 1..Len(text) : text[i] \in {"edited", "filters_detected:false"}

\* what self._model.chat returns: a JSON object, and prose
ChatResponses ==
    { <<"{", "accessories_detected:false", "filters_detected:false", "}">>,
      <<"hat", "edited">> }

\* AccessoriesValidator._parse_response
_parse_response(answer) ==
    IF answer = <<>>
    THEN [accessories_detected |-> FALSE, filters_detected |-> FALSE,
          items |-> "[]", reasoning |-> "Empty response from MiniCPM-o"]
    ELSE IF json_candidate(answer) # <<>> /\ json_loads_ok(json_candidate(answer))
    THEN [accessories_detected |->
              json_get_bool(json_candidate(answer), "accessories_detected"),
          filters_detected |->
              json_get_bool(json_candidate(answer), "filters_detected"),
          items |-> "[]",
          reasoning |-> "text"]
    ELSE [accessories_detected |-> has_accessories_keyword(answer),
          filters_detected |-> has_filter_keyword(answer),
          items |-> IF has_accessories_keyword(answer) THEN "detected_items"
                    ELSE "[]",
          reasoning |-> "text"]

\* AccessoriesValidator._detect_with_vlm, lines 124-149: the dict returned
\* once the model is loaded and chat answered `answer`
_detect_with_vlm(self, ctx, answer) ==
    [vlm_enabled |-> TRUE,
     model_id |-> "model_id",
     raw_response |-> answer,
     latency_ms |-> "latency_ms",
     used_face_crop |-> "face_bbox" \in DOMAIN ctx,
     face_crop_bbox |-> Get(ctx, "face_bbox"),
     inference_device |-> self._inference_device,
     revision |-> "revision",
     attn_implementation |->
         IF self._attn_impl = "unset" THEN "None" ELSE self._attn_impl]
    @@ _parse_response(answer)

\* AccessoriesValidator.validate, lines 80-85: the validator is disabled
AccessoriesValidator_disabled ==
    set_metadata(_create_result(TRUE, EmptyDict),
        [vlm_enabled |-> FALSE, message |-> "VLM validation is disabled"])

\* AccessoriesValidator.validate, lines 87-94: an earlier load failed
AccessoriesValidator_load_failed ==
    set_metadata(_create_result(TRUE, EmptyDict),
        [vlm_enabled |-> TRUE,
         vlm_error |-> "Previous MiniCPM-o load failed",
         model_id |-> "model_id",
         revision |-> "revision"])

\* AccessoriesValidator.validate, lines 110-116: _detect_with_vlm raised exc
AccessoriesValidator_failed(exc) ==
    set_metadata(_create_result(TRUE, EmptyDict),
        [vlm_enabled |-> TRUE, vlm_error |-> exc, model_id |-> "model_id"])

\* AccessoriesValidator.validate, lines 99-109: _detect_with_vlm returned
AccessoriesValidator_detected(detection) ==
    LET r0 == set_metadata(_create_result(TRUE, EmptyDict), detection)
        r1 == IF detection.accessories_detected
              THEN add_error(r0, "accessories_detected", "custom")
              ELSE r0
    IN  IF detection.filters_detected
        THEN add_error(r1, "filters_or_heavy_editing_detected", "custom")
        ELSE r1

\* _ensure_model_loaded: `self._model is not None and self._tokenizer is not None`
ModelPresent(self) == self._model # 0 /\ self._tokenizer # 0

\* a thread outside validate
IdleThread(done) ==
    [pc |-> "idle", done |-> done, attn_impl |-> "sdpa", ext |-> <<>>]

\* the history of the object before any call
NoLoads ==
    [load_attempts |-> 0, attempts_after_failure |-> 0,
     attempts_after_success |-> 0, instances |-> 0, successes |-> 0]

(***************************************************************************)
(* The requests explored: the HTTP handlers of src/app/api/routes.py with  *)
(* the pipeline object and method each of them uses, and direct calls of   *)
(* either method on a pipeline object of either mode (library use, as in   *)
(* src/export_landmarks.py).  check_accessories is the flag the client     *)
(* sent with the request.                                                  *)
(***************************************************************************)
Requests ==
    { [endpoint |-> "validate_photo", mode |-> MODE_FULL, op |-> "validate",
       check_accessories |-> c] : c \in BOOLEAN }
    \cup
    { [endpoint |-> "validate_photo", mode |-> MODE_STREAM,
       op |-> "validate_stream", check_accessories |-> FALSE],
      [endpoint |-> "validate_stream", mode |-> MODE_STREAM,
       op |-> "validate_stream", check_accessories |-> FALSE],
      [endpoint |-> "validate_upload", mode |-> MODE_FULL, op |-> "validate",
       check_accessories |-> FALSE] }
    \cup
    { [endpoint |-> "library", mode |-> m, op |-> o,
       check_accessories |-> FALSE] :
        m \in {MODE_FULL, MODE_STREAM}, o \in {"validate", "validate_stream"} }

NoResponse == [kind |-> "none"]

Init ==
    /\ request \in Requests
    /\ image \in Images
    /\ pc = "start"
    /\ idx = 0
    /\ context = EmptyDict
    /\ all_errors = <<>>
    /\ all_metadata = EmptyDict
    /\ landmarks = "None"
    /\ guidance = EmptyDict
    /\ response = NoResponse
    /\ trace = <<>>
    /\ active = {}
    /\ vr = ValidationResult(TRUE, <<>>, EmptyDict)
    /\ calls = <<>>
    /\ acc = AccessoriesValidator_init(FALSE, FALSE)
    /\ threads = [t \in Threads |-> IdleThread(0)]
    /\ accLog = NoLoads

\* history entries
Invocation(name, ctx) ==
    [name |-> name, outcome |-> "running", passed |-> TRUE, errors |-> <<>>,
     metadata |-> EmptyDict, ctx |-> ctx]
Returned(entry, result) ==
    [entry EXCEPT !.outcome = "returned", !.passed = result.passed,
                  !.errors = result.errors, !.metadata = result.metadata]
Threw(entry) == [entry EXCEPT !.outcome = "threw"]
SetLast(seq, e) == [seq EXCEPT ![Len(seq)] = e]

\* routes.validate_photo with request.mode == FULL: the call
\*   pipeline.validate(image_payload, is_base64=True,
\*                     run_accessories=request.check_accessories)
\* raises before validate's body runs (ValidationRequest has no field
\* check_accessories, and validate has no parameter run_accessories); the
\* handler's except branch answers HTTP 500.
ValidatePhotoFull ==
    /\ pc = "start"
    /\ request.endpoint = "validate_photo"
    /\ request.op = "validate"
    /\ pc' = "done"
    /\ response' = [kind |-> "http_500"]
    /\ UNCHANGED <<request, image, idx, context, all_errors, all_metadata,
                   landmarks, guidance, trace, active, vr,
                   calls, acc, threads, accLog>>

\* the calls that reach the pipeline method
ReachesPipeline ==
    ~(request.endpoint = "validate_photo" /\ request.op = "validate")

\* validate, lines 78-100: decoding raises
ValidateDecodeFails ==
    /\ pc = "start"
    /\ ReachesPipeline
    /\ request.op = "validate"
    /\ ~image.decodable
    /\ pc' = "done"
    /\ response' = validate_decode_failure
    /\ UNCHANGED <<request, image, idx, context, all_errors, all_metadata,
                   landmarks, guidance, trace, active, vr,
                   calls, acc, threads, accLog>>

\* validate, lines 78-109: decoding succeeds
ValidateDecodes ==
    /\ pc = "start"
    /\ ReachesPipeline
    /\ request.op = "validate"
    /\ image.decodable
    /\ context' = [image_bytes |-> image.format]
    /\ all_errors' = <<>>
    /\ all_metadata' = EmptyDict
    /\ idx' = 1
    /\ pc' = "loop"
    /\ UNCHANGED <<request, image, landmarks, guidance, response, trace,
                   active, vr,
                   calls, acc, threads, accLog>>

\* validate_stream, lines 163-185: decoding raises
StreamDecodeFails ==
    /\ pc = "start"
    /\ ReachesPipeline
    /\ request.op = "validate_stream"
    /\ ~image.decodable
    /\ pc' = "done"
    /\ response' = stream_decode_failure
    /\ UNCHANGED <<request, image, idx, context, all_errors, all_metadata,
                   landmarks, guidance, trace, active, vr,
                   calls, acc, threads, accLog>>

\* validate_stream, lines 163-197: decoding succeeds
StreamDecodes ==
    /\ pc = "start"
    /\ ReachesPipeline
    /\ request.op = "validate_stream"
    /\ image.decodable
    /\ context' = [image_bytes |-> image.format]
    /\ all_errors' = <<>>
    /\ landmarks' = "None"
    /\ guidance' = EmptyDict
    /\ idx' = 1
    /\ pc' = "loop"
    /\ UNCHANGED <<request, image, all_metadata, response, trace, active, vr,
                   calls, acc, threads, accLog>>

\* lines 111-113 / 199-201: the loop takes the next stage and calls its
\* validate with the image and the context
InvokeStage ==
    /\ pc = "loop"
    /\ idx <= Len(StageList)
    /\ trace' = Append(trace, Invocation(StageList[idx], context))
    /\ active' = active \cup {StageList[idx]}
    /\ pc' = "stage"
    /\ UNCHANGED <<request, image, idx, context, all_errors, all_metadata,
                   landmarks, guidance, response, vr,
                   calls, acc, threads, accLog>>

\* where the loop goes after the body ran for stage idx
AfterStage(stop) ==
    IF stop \/ idx = Len(StageList)
    THEN pc' = "finish" /\ idx' = idx
    ELSE pc' = "loop" /\ idx' = idx + 1

\* validate, lines 113-132: the stage returned a result
ValidateStageReturns ==
    /\ pc = "stage"
    /\ request.op = "validate"
    /\ LET name == StageList[idx] IN
       \E result \in StageResults(name, image, context) :
         /\ all_errors' = validate_collect(all_errors, result)
         /\ all_metadata' = validate_store_metadata(all_metadata, name, result)
         /\ context' = context_update(context, result.metadata)
         /\ AfterStage(validate_early_exit(name, result))
         /\ trace' = SetLast(trace, Returned(trace[Len(trace)], result))
         /\ active' = active \ {name}
    /\ UNCHANGED <<request, image, landmarks, guidance, response, vr,
                   calls, acc, threads, accLog>>

\* validate, lines 134-139: the stage raised
ValidateStageThrows ==
    /\ pc = "stage"
    /\ request.op = "validate"
    /\ all_metadata' = validate_store_failure(all_metadata, StageList[idx])
    /\ AfterStage(FALSE)
    /\ trace' = SetLast(trace, Threw(trace[Len(trace)]))
    /\ active' = active \ {StageList[idx]}
    /\ UNCHANGED <<request, image, context, all_errors, landmarks, guidance,
                   response, vr,
                   calls, acc, threads, accLog>>

\* validate, lines 141-148
ValidateFinish ==
    /\ pc = "finish"
    /\ request.op = "validate"
    /\ response' = [kind |-> "validate",
                    status |-> validate_status(all_errors),
                    errors |-> all_errors,
                    metadata |-> all_metadata]
    /\ pc' = "done"
    /\ UNCHANGED <<request, image, idx, context, all_errors, all_metadata,
                   landmarks, guidance, trace, active, vr,
                   calls, acc, threads, accLog>>

\* validate_stream, lines 201-233: the stage returned a result
StreamStageReturns ==
    /\ pc = "stage"
    /\ request.op = "validate_stream"
    /\ LET name == StageList[idx] IN
       \E result \in StageResults(name, image, context) :
         /\ all_errors' = stream_collect(all_errors, result)
         /\ landmarks' = stream_landmarks(landmarks, name, result)
         /\ guidance' = stream_guidance(guidance, name, result)
         /\ context' = context_update(context, result.metadata)
         /\ AfterStage(stream_early_exit(name, result))
         /\ trace' = SetLast(trace, Returned(trace[Len(trace)], result))
         /\ active' = active \ {name}
    /\ UNCHANGED <<request, image, all_metadata, response, vr,
                   calls, acc, threads, accLog>>

\* validate_stream, lines 235-236: the stage raised
StreamStageThrows ==
    /\ pc = "stage"
    /\ request.op = "validate_stream"
    /\ AfterStage(FALSE)
    /\ trace' = SetLast(trace, Threw(trace[Len(trace)]))
    /\ active' = active \ {StageList[idx]}
    /\ UNCHANGED <<request, image, context, all_errors, all_metadata,
                   landmarks, guidance, response, vr,
                   calls, acc, threads, accLog>>

\* validate_stream, lines 238-248.  The frame debugger called on line 241
\* only reads its arguments and swallows its own failures
\* (src/app/utils/frame_debugger.py, FrameSaver.save).
StreamFinish ==
    /\ pc = "finish"
    /\ request.op = "validate_stream"
    /\ response' = [kind |-> "validate_stream",
                    status |-> stream_status(all_errors),
                    errors |-> all_errors,
                    landmarks |-> landmarks,
                    guidance |-> guidance]
    /\ pc' = "done"
    /\ UNCHANGED <<request, image, idx, context, all_errors, all_metadata,
                   landmarks, guidance, trace, active, vr,
                   calls, acc, threads, accLog>>

Next ==
    \/ ValidatePhotoFull
    \/ ValidateDecodeFails
    \/ ValidateDecodes
    \/ StreamDecodeFails
    \/ StreamDecodes
    \/ InvokeStage
    \/ ValidateStageReturns
    \/ ValidateStageThrows
    \/ ValidateFinish
    \/ StreamStageReturns
    \/ StreamStageThrows
    \/ StreamFinish

Spec == Init /\ [][Next]_vars

(***************************************************************************)
(* The result model on its own: starting from ValidationResult() with its  *)
(* default arguments, a result is constructed with arbitrary arguments     *)
(* (directly or through _create_result) and receives add_error calls.      *)
(***************************************************************************)
\* Number of add_error calls explored on one result.
MaxAddErrorCalls == 2

\* error codes and custom messages used by the result-model runs
ResultCodes == {"no_face_detected", "head_is_tilted"}
ResultMessages == {"None", "custom"}

\* the error lists of length <= n
RECURSIVE ErrorLists(_)
ErrorLists(n) ==
    IF n = 0 THEN { <<>> }
    ELSE ErrorLists(n - 1) \cup
         { Append(l, ValidationError(c, m)) :
             l \in { k \in ErrorLists(n - 1) : Len(k) = n - 1 },
             c \in ResultCodes, m \in ResultMessages }

ResultMetadata == { EmptyDict, [face_count |-> 1] }

InitResult ==
    /\ request \in { r \in Requests : r.endpoint = "library"
                                       /\ r.mode = MODE_FULL
                                       /\ r.op = "validate" }
    /\ image \in { i \in Images : ~i.decodable }
    /\ pc = "result"
    /\ idx = 0
    /\ context = EmptyDict
    /\ all_errors = <<>>
    /\ all_metadata = EmptyDict
    /\ landmarks = "None"
    /\ guidance = EmptyDict
    /\ response = NoResponse
    /\ trace = <<>>
    /\ active = {}
    /\ vr = ValidationResult(TRUE, <<>>, EmptyDict)
    /\ calls = <<>>
    /\ acc = AccessoriesValidator_init(FALSE, FALSE)
    /\ threads = [t \in Threads |-> IdleThread(0)]
    /\ accLog = NoLoads

\* ValidationResult(passed=..., errors=..., metadata=...)
Construct ==
    /\ pc = "result"
    /\ \E p \in BOOLEAN, e \in ErrorLists(MaxErrors), m \in ResultMetadata :
         vr' = ValidationResult(p, e, m)
    /\ UNCHANGED <<request, image, pc, idx, context, all_errors, all_metadata,
                   landmarks, guidance, response, trace, active,
                   calls, acc, threads, accLog>>

\* BaseValidator._create_result(passed=..., metadata=...)
CreateResult ==
    /\ pc = "result"
    /\ \E p \in BOOLEAN, m \in ResultMetadata : vr' = _create_result(p, m)
    /\ UNCHANGED <<request, image, pc, idx, context, all_errors, all_metadata,
                   landmarks, guidance, response, trace, active,
                   calls, acc, threads, accLog>>

\* result.add_error(code, message)
AddError ==
    /\ pc = "result"
    /\ Len(vr.errors) < MaxErrors + MaxAddErrorCalls
    /\ \E c \in ResultCodes, m \in ResultMessages : vr' = add_error(vr, c, m)
    /\ UNCHANGED <<request, image, pc, idx, context, all_errors, all_metadata,
                   landmarks, guidance, response, trace, active,
                   calls, acc, threads, accLog>>

NextResult == Construct \/ CreateResult \/ AddError

SpecResult == InitResult /\ [][NextResult]_vars

(***************************************************************************)
(* Concurrent use of one AccessoriesValidator: NumThreads threads each     *)
(* call validate(image, context) up to MaxValidateCalls times on the same  *)
(* object.  A step is one read or write of the object's fields, or one     *)
(* call of a collaborator (AutoTokenizer / AutoModel.from_pretrained,      *)
(* model.to, model.chat), whose outcome is drawn when it is called.  Every *)
(* finished call is appended to `calls` with the collaborator outcomes it  *)
(* saw (ext) and the ValidationResult it returned.                         *)
(***************************************************************************)
\* the contexts the validator is called with
AccContexts == { EmptyDict, [face_bbox |-> <<150, 160, 300, 400>>] }

InitAcc ==
    /\ request \in { r \in Requests : r.endpoint = "library"
                                       /\ r.mode = MODE_FULL
                                       /\ r.op = "validate" }
    /\ image \in { i \in Images : i.decodable /\ i.format = "JPEG" }
    /\ pc = "accessories"
    /\ idx = 0
    /\ context \in AccContexts
    /\ all_errors = <<>>
    /\ all_metadata = EmptyDict
    /\ landmarks = "None"
    /\ guidance = EmptyDict
    /\ response = NoResponse
    /\ trace = <<>>
    /\ active = {}
    /\ vr = ValidationResult(TRUE, <<>>, EmptyDict)
    /\ calls = <<>>
    /\ \E enabled \in BOOLEAN, cuda_available \in BOOLEAN :
         acc = AccessoriesValidator_init(enabled, cuda_available)
    /\ threads = [t \in Threads |-> IdleThread(0)]
    /\ accLog = NoLoads

\* thread t moves to position p inside validate
AccGoto(t, p) == threads' = [threads EXCEPT ![t].pc = p]

\* thread t notes that collaborator k answered v, and moves to position p
AccSaw(t, k, v, p) ==
    threads' = [threads EXCEPT ![t].pc = p, ![t].ext = (k :> v) @@ @]

\* validate returns `result` to thread t, which saw the outcomes ext
AccReturns(t, ext, result) ==
    /\ calls' = Append(calls, [stage |-> "accessories", thread |-> t,
                               ctx |-> context, ext |-> ext,
                               result |-> result])
    /\ threads' = [threads EXCEPT ![t] = IdleThread(threads[t].done + 1)]

\* validate, lines 77-94: the checks before the try block
AccValidateStart(t) ==
    /\ pc = "accessories"
    /\ threads[t].pc = "idle"
    /\ threads[t].done < MaxValidateCalls
    /\ IF ~acc.enabled
       THEN AccReturns(t, EmptyDict, AccessoriesValidator_disabled)
       ELSE IF acc._load_failed
       THEN AccReturns(t, EmptyDict, AccessoriesValidator_load_failed)
       ELSE AccGoto(t, "ensure") /\ UNCHANGED calls
    /\ UNCHANGED <<request, image, pc, idx, context, all_errors, all_metadata,
                   landmarks, guidance, response, trace, active, vr,
                   acc, accLog>>

\* _ensure_model_loaded, lines 153-156: the checks before taking the lock
AccEnsure(t) ==
    /\ threads[t].pc = "ensure"
    /\ IF ModelPresent(acc)
       THEN AccGoto(t, "chat") /\ UNCHANGED calls
       ELSE IF acc._load_failed
       THEN AccReturns(t, threads[t].ext,
                AccessoriesValidator_failed("MiniCPM-o load previously failed"))
       ELSE AccGoto(t, "lock") /\ UNCHANGED calls
    /\ UNCHANGED <<request, image, pc, idx, context, all_errors, all_metadata,
                   landmarks, guidance, response, trace, active, vr,
                   acc, accLog>>

\* _ensure_model_loaded, lines 158-176: the lock is taken; with the model
\* and the tokenizer present the thread leaves at once, otherwise it starts
\* loading
AccAcquire(t) ==
    /\ threads[t].pc = "lock"
    /\ acc._model_lock = 0
    /\ IF ModelPresent(acc)
       THEN /\ AccGoto(t, "chat")
            /\ UNCHANGED <<acc, accLog>>
       ELSE /\ acc' = [acc EXCEPT !._model_lock = t,
                                  !._inference_device = _resolve_device(acc)]
            /\ threads' = [threads EXCEPT ![t].pc = "tokenizer",
                                          ![t].attn_impl = "sdpa"]
            /\ accLog' = [accLog EXCEPT
                 !.load_attempts = @ + 1,
                 !.attempts_after_failure =
                     IF acc._load_failed THEN @ + 1 ELSE @,
                 !.attempts_after_success =
                     IF accLog.successes > 0 THEN @ + 1 ELSE @]
    /\ UNCHANGED <<request, image, pc, idx, context, all_errors, all_metadata,
                   landmarks, guidance, response, trace, active, vr, calls>>

\* _ensure_model_loaded, lines 178-182: AutoTokenizer.from_pretrained
AccLoadTokenizer(t) ==
    /\ threads[t].pc = "tokenizer"
    /\ \E outcome \in {"ok", "raises"} :
         IF outcome = "ok"
         THEN /\ acc' = [acc EXCEPT !._tokenizer = 1]
              /\ AccSaw(t, "tokenizer", outcome, "model")
         ELSE /\ acc' = acc
              /\ AccSaw(t, "tokenizer", outcome, "eager")
    /\ UNCHANGED <<request, image, pc, idx, context, all_errors, all_metadata,
                   landmarks, guidance, response, trace, active, vr, calls,
                   accLog>>

\* _ensure_model_loaded, lines 183-186: AutoModel.from_pretrained with sdpa
AccLoadModel(t) ==
    /\ threads[t].pc = "model"
    /\ \E outcome \in {"ok", "raises"} :
         IF outcome = "ok"
         THEN /\ acc' = [acc EXCEPT !._model = accLog.instances + 1]
              /\ accLog' = [accLog EXCEPT !.instances = @ + 1]
              /\ AccSaw(t, "model_sdpa", outcome, "loaded")
         ELSE /\ acc' = acc
              /\ accLog' = accLog
              /\ AccSaw(t, "model_sdpa", outcome, "eager")
    /\ UNCHANGED <<request, image, pc, idx, context, all_errors, all_metadata,
                   landmarks, guidance, response, trace, active, vr, calls>>

\* _ensure_model_loaded, lines 187-202: the retry with eager attention; when
\* it fails too, _load_failed is set, the lock is released and the exception
\* reaches validate's except branch
AccLoadEager(t) ==
    /\ threads[t].pc = "eager"
    /\ \E outcome \in {"ok", "raises"} :
         IF outcome = "ok"
         THEN /\ acc' = [acc EXCEPT !._model = accLog.instances + 1]
              /\ accLog' = [accLog EXCEPT !.instances = @ + 1]
              /\ threads' = [threads EXCEPT
                   ![t].pc = "loaded",
                   ![t].attn_impl = "eager",
                   ![t].ext = ("model_eager" :> outcome) @@ @]
              /\ UNCHANGED calls
         ELSE /\ acc' = [acc EXCEPT !._load_failed = TRUE, !._model_lock = 0]
              /\ accLog' = accLog
              /\ AccReturns(t, ("model_eager" :> outcome) @@ threads[t].ext,
                            AccessoriesValidator_failed("load error"))
    /\ UNCHANGED <<request, image, pc, idx, context, all_errors, all_metadata,
                   landmarks, guidance, response, trace, active, vr>>

\* _ensure_model_loaded, lines 204-207: the model is moved to the device
\* (unless it is the cpu), _attn_impl is stored and the lock is released;
\* when model.to raises, the lock is released and the exception reaches
\* validate's except branch
AccFinishLoad(t) ==
    /\ threads[t].pc = "loaded"
    /\ \E outcome \in IF acc._inference_device # "cpu"
                      THEN {"ok", "raises"} ELSE {"skipped"} :
         IF outcome = "raises"
         THEN /\ acc' = [acc EXCEPT !._model_lock = 0]
              /\ accLog' = accLog
              /\ AccReturns(t, ("to" :> outcome) @@ threads[t].ext,
                            AccessoriesValidator_failed("device error"))
         ELSE /\ acc' = [acc EXCEPT !._attn_impl = threads[t].attn_impl,
                                    !._model_lock = 0]
              /\ accLog' = [accLog EXCEPT !.successes = @ + 1]
              /\ AccSaw(t, "to", outcome, "chat")
              /\ UNCHANGED calls
    /\ UNCHANGED <<request, image, pc, idx, context, all_errors, all_metadata,
                   landmarks, guidance, response, trace, active, vr>>

\* _detect_with_vlm, lines 124-149, and validate, lines 99-118: the model
\* answers (or raises) and validate returns
AccChat(t) ==
    /\ threads[t].pc = "chat"
    /\ \E outcome \in {[kind |-> "answers", text |-> a] : a \in ChatResponses}
                        \cup {[kind |-> "raises", text |-> <<>>]} :
         AccReturns(t, ("chat" :> outcome) @@ threads[t].ext,
             IF outcome.kind = "raises"
             THEN AccessoriesValidator_failed("chat error")
             ELSE AccessoriesValidator_detected(
                      _detect_with_vlm(acc, context, outcome.text)))
    /\ UNCHANGED <<request, image, pc, idx, context, all_errors, all_metadata,
                   landmarks, guidance, response, trace, active, vr,
                   acc, accLog>>

NextAcc ==
    \E t \in Threads :
        \/ AccValidateStart(t)
        \/ AccEnsure(t)
        \/ AccAcquire(t)
        \/ AccLoadTokenizer(t)
        \/ AccLoadModel(t)
        \/ AccLoadEager(t)
        \/ AccFinishLoad(t)
        \/ AccChat(t)

SpecAcc == InitAcc /\ [][NextAcc]_vars

(***************************************************************************)
(* The stage validators called directly: validate(image, context) of one   *)
(* stage is called up to MaxStageCalls times on the same image, with the   *)
(* contexts and collaborator outputs below.  Every call is appended to     *)
(* `calls` with its context, the collaborator outputs (ext) and the        *)
(* ValidationResult returned.                                              *)
(***************************************************************************)
\* Number of calls made on the stage.
MaxStageCalls == 2

StageNames == {"format", "quality", "face", "pose", "geometry", "background"}

\* the decoded images the stages are called on, with the format PIL sniffs
\* from the bytes they were decoded from
StageImages ==
    { [decodable |-> TRUE, width |-> s[1], height |-> s[2], format |-> f] :
        s \in { <<600, 800>>, <<480, 1200>> },
        f \in {"JPEG", "PNG", "GIF", "raises"} }

\* the contexts a stage is called with: None, the pipeline's seed, the seed
\* with a face box that starts at the right edge of the image, and the seed
\* updated with the metadata of a Face stage that found one face
StageContexts(img) ==
    LET seed == [image_bytes |-> img.format]
    IN  { EmptyDict, seed,
          [face_bbox |-> <<img.width, 0, 10, 10>>] @@ seed } \cup
        { FaceDetectionValidator_validate(img, seed, f).metadata @@ seed :
            f \in { x \in FaceInputs : x.detections = 1 } }

\* the collaborator outputs drawn for the stage called `name`
StageInputs(name) ==
    CASE name = "format" -> JpegInputs
      [] name = "quality" -> QualityInputs
      [] name = "face" -> FaceInputs
      [] name = "pose" -> PoseInputs
      [] name = "geometry" -> GeometryInputs
      [] name = "background" -> BackgroundInputs

\* validator.validate(image, context) of the stage called `name`, its
\* collaborators answering x
StageValidate(name, img, ctx, x) ==
    CASE name = "format" -> FormatValidator_validate(img, ctx, x)
      [] name = "quality" -> QualityValidator_validate(img, ctx, x)
      [] name = "face" -> FaceDetectionValidator_validate(img, ctx, x)
      [] name = "pose" -> PoseEstimationValidator_validate(img, ctx, x)
      [] name = "geometry" -> GeometryValidator_validate(img, ctx, x)
      [] name = "background" -> BackgroundValidator_validate(img, ctx, x)

InitStage ==
    /\ request \in { r \in Requests : r.endpoint = "library"
                                       /\ r.mode = MODE_FULL
                                       /\ r.op = "validate" }
    /\ image \in StageImages
    /\ pc = "stage_call"
    /\ idx = 0
    /\ context = EmptyDict
    /\ all_errors = <<>>
    /\ all_metadata = EmptyDict
    /\ landmarks = "None"
    /\ guidance = EmptyDict
    /\ response = NoResponse
    /\ trace = <<>>
    /\ active = {}
    /\ vr = ValidationResult(TRUE, <<>>, EmptyDict)
    /\ calls = <<>>
    /\ acc = AccessoriesValidator_init(FALSE, FALSE)
    /\ threads = [t \in Threads |-> IdleThread(0)]
    /\ accLog = NoLoads

\* validate(image, context) of one stage; the calls after the first are
\* made on the same stage
CallStage ==
    /\ pc = "stage_call"
    /\ Len(calls) < MaxStageCalls
    /\ \E name \in StageNames :
         /\ IF calls = <<>> THEN TRUE ELSE calls[1].stage = name
         /\ \E ctx \in StageContexts(image), x \in StageInputs(name) :
              calls' = Append(calls,
                         [stage |-> name, thread |-> 0, ctx |-> ctx, ext |-> x,
                          result |-> StageValidate(name, image, ctx, x)])
    /\ UNCHANGED <<request, image, pc, idx, context, all_errors, all_metadata,
                   landmarks, guidance, response, trace, active, vr,
                   acc, threads, accLog>>

NextStage == CallStage

SpecStage == InitStage /\ [][NextStage]_vars

(***************************************************************************)
(* The threshold checks on their whole input range: _check_pose_angles on  *)
(* every triple of angles up to MaxAngle degrees, and the Geometry stage   *)
(* on every face box with coordinates up to MaxCoord in the images of      *)
(* CenteringImages, _parse_response on every text of up to MaxTokens       *)
(* tokens, _check_exposure_contrast on every grayscale image of up to      *)
(* MaxPixels pixels with values in GrayLevels.                             *)
(***************************************************************************)
\* Largest angle, in degrees, given to _check_pose_angles.
MaxAngle == 21
\* Largest x, y, width and height of the face boxes given to Geometry.
MaxCoord == 6

\* Largest number of tokens in a response text given to _parse_response.
MaxTokens == 4
\* Largest number of pixels in a grayscale image given to
\* _check_exposure_contrast.
MaxPixels == 4

Angles == (0 - MaxAngle)..MaxAngle

\* the images the face boxes are placed in
CenteringImages ==
    { [decodable |-> TRUE, width |-> 10, height |-> 10, format |-> "PNG"],
      [decodable |-> TRUE, width |-> 20, height |-> 10, format |-> "PNG"] }

FaceBoxes ==
    { <<x, y, w, h>> : x \in 0..MaxCoord, y \in 0..MaxCoord,
                       w \in 1..MaxCoord, h \in 1..MaxCoord }

InitChecks ==
    /\ request \in { r \in Requests : r.endpoint = "library"
                                       /\ r.mode = MODE_FULL
                                       /\ r.op = "validate" }
    /\ image \in CenteringImages
    /\ pc = "check"
    /\ idx = 0
    /\ context = EmptyDict
    /\ all_errors = <<>>
    /\ all_metadata = EmptyDict
    /\ landmarks = "None"
    /\ guidance = EmptyDict
    /\ response = NoResponse
    /\ trace = <<>>
    /\ active = {}
    /\ vr = ValidationResult(TRUE, <<>>, EmptyDict)
    /\ calls = <<>>
    /\ acc = AccessoriesValidator_init(FALSE, FALSE)
    /\ threads = [t \in Threads |-> IdleThread(0)]
    /\ accLog = NoLoads

\* self._check_pose_angles(yaw, pitch, roll, result) on a fresh result
CheckPoseAngles ==
    /\ pc = "check"
    /\ calls = <<>>
    /\ image.width = image.height
    /\ \E yaw \in Angles, pitch \in Angles, roll \in Angles :
         calls' = << [stage |-> "_check_pose_angles", thread |-> 0,
                      ctx |-> EmptyDict,
                      ext |-> [yaw |-> yaw, pitch |-> pitch, roll |-> roll],
                      result |-> _check_pose_angles(yaw, pitch, roll,
                                     _create_result(TRUE, EmptyDict))] >>
    /\ UNCHANGED <<request, image, pc, idx, context, all_errors, all_metadata,
                   landmarks, guidance, response, trace, active, vr,
                   acc, threads, accLog>>

\* GeometryValidator.validate(image, {'face_bbox': bbox}): no landmarks, so
\* the size and centering checks are the ones that run
CheckFaceCentering ==
    /\ pc = "check"
    /\ calls = <<>>
    /\ \E bbox \in FaceBoxes :
         LET ctx == [face_bbox |-> bbox]
             g == [raises |-> FALSE, density |-> 0]
         IN  calls' = << [stage |-> "geometry", thread |-> 0, ctx |-> ctx,
                          ext |-> g,
                          result |-> GeometryValidator_validate(image, ctx, g)] >>
    /\ UNCHANGED <<request, image, pc, idx, context, all_errors, all_metadata,
                   landmarks, guidance, response, trace, active, vr,
                   acc, threads, accLog>>

\* the response texts given to _parse_response
ResponseTexts == UNION { [1..n -> Tokens] : n \in 0..MaxTokens }

\* self._parse_response(response)
CheckParseResponse ==
    /\ pc = "check"
    /\ calls = <<>>
    /\ image.width = image.height
    /\ \E text \in ResponseTexts :
         calls' = << [stage |-> "_parse_response", thread |-> 0,
                      ctx |-> EmptyDict,
                      ext |-> [text |-> text],
                      result |-> _parse_response(text)] >>
    /\ UNCHANGED <<request, image, pc, idx, context, all_errors, all_metadata,
                   landmarks, guidance, response, trace, active, vr,
                   acc, threads, accLog>>

\* the pixel values explored: the ends of the range and the values on
\* either side of the two brightness thresholds
GrayLevels ==
    { 0, BRIGHTNESS_LOW_THRESHOLD - 1, BRIGHTNESS_LOW_THRESHOLD,
      BRIGHTNESS_HIGH_THRESHOLD, BRIGHTNESS_HIGH_THRESHOLD + 1, 255 }

GrayImages == UNION { [1..n -> GrayLevels] : n \in 1..MaxPixels }

\* self._check_exposure_contrast(gray, result) on a fresh result
CheckExposureContrast ==
    /\ pc = "check"
    /\ calls = <<>>
    /\ image.width = image.height
    /\ \E gray \in GrayImages :
         calls' = << [stage |-> "_check_exposure_contrast", thread |-> 0,
                      ctx |-> EmptyDict,
                      ext |-> [gray |-> gray],
                      result |-> _check_exposure_contrast_pixels(gray,
                                     _create_result(TRUE, EmptyDict))] >>
    /\ UNCHANGED <<request, image, pc, idx, context, all_errors, all_metadata,
                   landmarks, guidance, response, trace, active, vr,
                   acc, threads, accLog>>

NextChecks ==
    \/ CheckPoseAngles
    \/ CheckFaceCentering
    \/ CheckParseResponse
    \/ CheckExposureContrast

SpecChecks == InitChecks /\ [][NextChecks]_vars

(***************************************************************************)
(* Vocabulary of the properties.                                           *)
(***************************************************************************)
TraceNames == [i \in 1..Len(trace) |-> trace[i].name]

IsPrefix(s, t) == Len(s) <= Len(t) /\ \A i \in 1..Len(s) : s[i] = t[i]

\* the request ran one of the two pipeline methods on a decodable image
RanPipeline == ReachesPipeline /\ image.decodable

\* the loop of the running method is over
LoopOver == pc \in {"finish", "done"}

\* trace entry i is a stage that returned a failed result
ReturnedFailed(i) == trace[i].outcome = "returned" /\ ~trace[i].passed

\* trace entry i is a Format or Face stage that returned a failed result
HardFailure(i) == trace[i].name \in {"format", "face"} /\ ReturnedFailed(i)

HardStopped == \E i \in 1..Len(trace) : HardFailure(i)

\* the errors of the stages before entry i that returned a failed result
RECURSIVE ErrorsBefore(_)
ErrorsBefore(i) ==
    IF i <= 1 THEN <<>>
    ELSE ErrorsBefore(i - 1) \o
         (IF trace[i - 1].outcome = "returned" THEN trace[i - 1].errors ELSE <<>>)

FailureMarker(md) ==
    /\ DOMAIN md = {"error", "validator_failed"}
    /\ md["validator_failed"] = TRUE

(***************************************************************************)
(* Properties.                                                             *)
(***************************************************************************)

\* C1: the response of validate and of validate_stream (the decode-failure
\* response included) has status "success" exactly when its errors list is
\* empty, and status "fail" otherwise.
C1_StatusIffNoErrors ==
    (pc = "done" /\ response.kind \in {"validate", "validate_stream"}) =>
        /\ response.status \in {"success", "fail"}
        /\ response.status = "success" <=> Len(response.errors) = 0
        /\ response.status = "fail" <=> Len(response.errors) > 0

\* C1 witness: a full run of validate in which a soft stage failed, answered
\* "fail".
C1_Witness ==
    /\ pc = "done"
    /\ response.kind = "validate"
    /\ Len(trace) = 6
    /\ response.status = "fail"
    /\ Len(response.errors) > 0

\* C2: in both methods, once Format or Face has returned a failed result no
\* further stage is invoked, and when the loop is over a stage of the list
\* was left out only if Format or Face returned a failed result.
C2_HardStopExactly ==
    /\ \A i \in 1..Len(trace) : HardFailure(i) => i = Len(trace)
    /\ IsPrefix(TraceNames, StageList)
    /\ (LoopOver /\ RanPipeline) =>
          (Len(trace) < Len(StageList) <=> HardStopped)

\* C2 witness: validate_stream stopped after a failed Face stage.
C2_Witness ==
    /\ pc = "done"
    /\ request.op = "validate_stream"
    /\ Len(trace) = 3
    /\ HardFailure(3)

\* C4: the keys of the response metadata of validate are exactly the names of
\* the stages that were invoked, which are a prefix of the stage order; when
\* Format returned a failed result the only key is "format".
C4_MetadataKeys ==
    (pc = "done" /\ response.kind = "validate") =>
        /\ DOMAIN response.metadata = { trace[i].name : i \in 1..Len(trace) }
        /\ IsPrefix(TraceNames, _initialize_validators(request.mode))
        /\ (Len(trace) >= 1 /\ HardFailure(1)) =>
              DOMAIN response.metadata = {"format"}

\* C4 witness: validate answered after Format returned a failed result.
C4_Witness ==
    /\ pc = "done"
    /\ response.kind = "validate"
    /\ Len(trace) = 1
    /\ HardFailure(1)
    /\ DOMAIN response.metadata = {"format"}

\* C5: in full mode the stages are invoked in the order Format, Quality,
\* Face, Pose, Geometry, Background, each at most once, a stage only after
\* every earlier one returned or threw, and never two at a time.
C5_FullOrder ==
    (request.mode = MODE_FULL /\ request.op = "validate") =>
        /\ IsPrefix(TraceNames, <<"format", "quality", "face", "pose",
                                  "geometry", "background">>)
        /\ \A i, j \in 1..Len(trace) :
              trace[i].name = trace[j].name => i = j
        /\ \A i \in 1..Len(trace) :
              i < Len(trace) => trace[i].outcome # "running"
        /\ Cardinality(active) <= 1
        /\ active = { trace[i].name : i \in { k \in 1..Len(trace) :
                                               trace[k].outcome = "running" } }

\* C5 witness: the Background stage is running after the five stages before
\* it have returned.
C5_Witness ==
    /\ request.mode = MODE_FULL
    /\ request.op = "validate"
    /\ pc = "stage"
    /\ Len(trace) = 6
    /\ active = {"background"}
    /\ \A i \in 1..5 : trace[i].outcome = "returned"

\* the stages whose failure is not an early exit
SoftStages == {"quality", "pose", "geometry", "background"}

\* the errors of trace entry i are in the running error list, at the place
\* that follows the errors of the stages before it
Recorded(i) ==
    LET n == Len(ErrorsBefore(i))
    IN  /\ Len(all_errors) >= n + Len(trace[i].errors)
        /\ SubSeq(all_errors, n + 1, n + Len(trace[i].errors))
             = to_dicts(trace[i].errors)

\* C3 as stated: when Quality, Pose, Geometry or Background returns a failed
\* result, its errors are recorded and every later stage of the list is
\* still invoked.
C3_Original ==
    \A i \in 1..Len(trace) :
        (trace[i].name \in SoftStages /\ ReturnedFailed(i)) =>
            /\ Recorded(i)
            /\ LoopOver => Len(trace) = Len(StageList)

\* C3 amended: when Quality, Pose, Geometry or Background returns a failed
\* result, its errors are recorded and the next stage of the list is still
\* invoked; every later stage is invoked too unless the Face stage, run
\* after it, returns a failed result.
C3_SoftFailureContinues ==
    \A i \in 1..Len(trace) :
        (trace[i].name \in SoftStages /\ ReturnedFailed(i)) =>
            /\ Len(trace[i].errors) > 0
            /\ Recorded(i)
            /\ (i < Len(StageList)) =>
                  (pc = "loop" \/ Len(trace) > i)
            /\ LoopOver =>
                  \/ Len(trace) = Len(StageList)
                  \/ \E j \in (i + 1)..Len(trace) :
                        trace[j].name = "face" /\ HardFailure(j)

\* C3 witness: Quality and Pose returned failed results and all six stages
\* of the full list were invoked.
C3_Witness ==
    /\ pc = "done"
    /\ request.op = "validate"
    /\ Len(trace) = 6
    /\ ReturnedFailed(2)
    /\ ReturnedFailed(4)
    /\ Recorded(2)
    /\ Recorded(4)

\* C6 as stated: in full mode, when accessories checking is enabled for the
\* request, the Accessories stage is invoked after the Background stage;
\* when it is not enabled the Accessories stage is not invoked.
C6_AccessoriesWhenEnabled ==
    (pc = "done" /\ request.mode = MODE_FULL /\ request.op = "validate"
        /\ image.decodable /\ ~HardStopped) =>
        IF request.check_accessories
        THEN \E i, j \in 1..Len(trace) :
                /\ i < j
                /\ trace[i].name = "background"
                /\ trace[j].name = "accessories"
        ELSE \A i \in 1..Len(trace) : trace[i].name # "accessories"

\* C7: validate_stream never invokes Background or Accessories, whatever the
\* mode of the pipeline object, and invokes Format, Quality, Face, Pose,
\* Geometry in that order with the hard-stop rule of full mode.
C7_StreamStages ==
    request.op = "validate_stream" =>
        /\ \A i \in 1..Len(trace) :
              trace[i].name \notin {"background", "accessories"}
        /\ IsPrefix(TraceNames,
                    <<"format", "quality", "face", "pose", "geometry">>)
        /\ \A i \in 1..Len(trace) : HardFailure(i) => i = Len(trace)
        /\ (LoopOver /\ RanPipeline) => (Len(trace) < 5 <=> HardStopped)

\* C7 witness: validate_stream on a full-mode pipeline ran its five stages.
C7_Witness ==
    /\ pc = "done"
    /\ request.op = "validate_stream"
    /\ request.mode = MODE_FULL
    /\ Len(trace) = 5
    /\ trace[5].name = "geometry"

\* the step in which the running stage of validate throws
ValidateThrowStep ==
    /\ pc = "stage"
    /\ request.op = "validate"
    /\ Len(trace') = Len(trace)
    /\ trace'[Len(trace')].outcome = "threw"

\* C8: in validate, when a stage throws, nothing reaches the caller, the
\* stage's metadata entry is the marker {error, validator_failed: true}, the
\* error list and the context are left as they were, and the loop goes on to
\* the next stage (also after Format or Face).
C8_ThrowIsContained ==
    /\ [][ ValidateThrowStep =>
             /\ all_errors' = all_errors
             /\ context' = context
             /\ StageList[idx] \in DOMAIN all_metadata'
             /\ FailureMarker(all_metadata'[StageList[idx]])
             /\ response' = NoResponse
             /\ (idx < Len(StageList)) => (pc' = "loop" /\ idx' = idx + 1)
             /\ (idx = Len(StageList)) => pc' = "finish" ]_vars
    /\ [](\A i \in 1..Len(trace) :
            (request.op = "validate" /\ trace[i].outcome = "threw") =>
               /\ (i < Len(StageList)) => (pc = "loop" \/ Len(trace) > i)
               /\ (i < Len(trace)) => trace[i + 1].ctx = trace[i].ctx
               /\ pc = "done" =>
                     /\ response.kind = "validate"
                     /\ trace[i].name \in DOMAIN response.metadata
                     /\ FailureMarker(response.metadata[trace[i].name]))

\* C8 witness: Format and Face both threw and validate still ran all six
\* stages and answered.
C8_Witness ==
    /\ pc = "done"
    /\ response.kind = "validate"
    /\ Len(trace) = 6
    /\ trace[1].outcome = "threw"
    /\ trace[3].outcome = "threw"
    /\ FailureMarker(response.metadata["format"])

\* C9: when decoding fails, validate and validate_stream answer "fail" with
\* exactly one error, of code invalid_image, and no stage is invoked.
C9_DecodeFailure ==
    (ReachesPipeline /\ ~image.decodable) =>
        /\ trace = <<>>
        /\ active = {}
        /\ pc \in {"start", "done"}
        /\ pc = "done" =>
              /\ response.status = "fail"
              /\ Len(response.errors) = 1
              /\ response.errors[1].code = "invalid_image"

\* C9 witness: validate_stream answered an undecodable image.
C9_Witness ==
    /\ pc = "done"
    /\ request.op = "validate_stream"
    /\ ~image.decodable
    /\ response.kind = "validate_stream"

\* C10 as stated: every ValidationResult has passed = False exactly when its
\* errors list is non-empty, at construction with any arguments and after
\* any add_error calls.
C10_PassedIffNoErrors ==
    pc = "result" => (vr.passed = FALSE <=> Len(vr.errors) > 0)

\* the context validate and validate_stream hold when entry i of the trace
\* is invoked, were it the seed merged with the metadata of the stages that
\* returned before it
RECURSIVE MergedContext(_)
MergedContext(i) ==
    IF i <= 1 THEN [image_bytes |-> image.format]
    ELSE IF trace[i - 1].outcome = "returned"
         THEN trace[i - 1].metadata @@ MergedContext(i - 1)
         ELSE MergedContext(i - 1)

\* the number of errors of the list with the given code
RECURSIVE CountCode(_, _)
CountCode(errors, code) ==
    IF errors = <<>> THEN 0
    ELSE (IF errors[1].code = code THEN 1 ELSE 0) + CountCode(Tail(errors), code)

\* C11: the errors list of a response of validate or validate_stream is the
\* concatenation, in stage execution order, of the errors lists of the
\* stages that returned, each in its own order: no error dropped, duplicated
\* or reordered.  The running list obeys the same rule while the loop runs.
C11_ErrorsConcatenated ==
    /\ (RanPipeline /\ pc \in {"loop", "finish", "done"}) =>
          all_errors = to_dicts(ErrorsBefore(Len(trace) + 1))
    /\ (RanPipeline /\ pc = "done") =>
          /\ "errors" \in DOMAIN response
          /\ response.errors = to_dicts(ErrorsBefore(Len(trace) + 1))

\* C11 witness: a response whose errors come from two stages, the first of
\* which reported two errors.
C11_Witness ==
    /\ pc = "done"
    /\ RanPipeline
    /\ Len(response.errors) >= 3
    /\ \E i, j \in 1..Len(trace) :
          /\ i < j
          /\ Len(trace[i].errors) = 2
          /\ Len(trace[j].errors) >= 1
          /\ trace[i].errors[1].code # trace[i].errors[2].code

\* C12: when a stage is invoked, the context equals the seed {image_bytes}
\* merged, in stage order, with the metadata of every earlier stage that
\* returned; whenever Face passed, Pose is invoked with the landmarks and
\* Geometry with the face_bbox Face produced in the same request.
C12_ContextAtInvocation ==
    /\ \A i \in 1..Len(trace) : trace[i].ctx = MergedContext(i)
    /\ \A i, j \in 1..Len(trace) :
          (trace[i].name = "face" /\ trace[i].outcome = "returned"
             /\ trace[i].passed) =>
            /\ trace[j].name = "pose" =>
                 /\ "landmarks" \in DOMAIN trace[j].ctx
                 /\ trace[j].ctx["landmarks"] = trace[i].metadata["landmarks"]
            /\ trace[j].name = "geometry" =>
                 /\ "face_bbox" \in DOMAIN trace[j].ctx
                 /\ trace[j].ctx["face_bbox"] = trace[i].metadata["face_bbox"]

\* C12 witness: Geometry was invoked after Face passed and Pose returned.
C12_Witness ==
    /\ Len(trace) >= 5
    /\ trace[3].name = "face" /\ trace[3].passed
    /\ trace[3].outcome = "returned"
    /\ trace[4].name = "pose" /\ trace[4].outcome = "returned"
    /\ trace[5].name = "geometry"
    /\ "yaw" \in DOMAIN trace[5].ctx
    /\ "face_bbox" \in DOMAIN trace[5].ctx

\* C13: for each stage, the set of metadata keys of the returned
\* ValidationResult is the same on every call, whether the stage passes,
\* fails or returns early.
C13_StableSchema ==
    \A i, j \in 1..Len(calls) :
        calls[i].stage = calls[j].stage =>
            DOMAIN calls[i].result.metadata = DOMAIN calls[j].result.metadata

\* the threads inside the model-loading section of _ensure_model_loaded
InLoadSection ==
    { t \in Threads : threads[t].pc \in {"tokenizer", "model", "eager", "loaded"} }

\* C14: at most one thread is inside the model-loading section at a time,
\* and once a load has succeeded exactly one model instance has ever been
\* constructed and no thread starts loading again.
C14_SingleModelInstance ==
    /\ Cardinality(InLoadSection) <= 1
    /\ accLog.successes >= 1 =>
          /\ accLog.instances = 1
          /\ accLog.attempts_after_success = 0

\* C15: once a model load has failed, no later call starts another load
\* attempt, a thread that was waiting for the lock included.
C15_FailFastAfterFailure == accLog.attempts_after_failure = 0

\* calls i and i + 1 were made one after the other by the same caller, no
\* other thread having called the object
InARow(i) ==
    /\ calls[i].thread = calls[i + 1].thread
    /\ \A t \in Threads :
          t # calls[i].thread => (threads[t].pc = "idle" /\ threads[t].done = 0)

\* the collaborators consulted in both calls answered the same
Agree(e1, e2) == \A k \in (DOMAIN e1) \cap (DOMAIN e2) : e1[k] = e2[k]

\* C16: calling validate of a stage twice in a row on the same image and
\* the same context, the collaborators answering the same, yields identical
\* ValidationResult metadata.
C16_Idempotent ==
    \A i \in 1..(Len(calls) - 1) :
        (/\ InARow(i)
         /\ calls[i].stage = calls[i + 1].stage
         /\ calls[i].ctx = calls[i + 1].ctx
         /\ Agree(calls[i].ext, calls[i + 1].ext)) =>
            calls[i].result.metadata = calls[i + 1].result.metadata

\* C17: the Face stage maps zero detections to exactly one no_face_detected
\* error, two or more detections to exactly one
\* more_than_one_person_in_photo error without consulting the face mesh, and
\* exactly one detection to no error whatever the mesh returns; in both
\* failing cases validate and validate_stream leave the loop.
C17_FaceMapping ==
    \A i \in 1..Len(calls) :
        calls[i].stage = "face" =>
            LET f == calls[i].ext
                r == calls[i].result
            IN  /\ f.detections = 0 =>
                     /\ ~r.passed
                     /\ Len(r.errors) = 1
                     /\ r.errors[1].code = "no_face_detected"
                     /\ validate_early_exit("face", r)
                     /\ stream_early_exit("face", r)
                /\ f.detections >= 2 =>
                     /\ ~r.passed
                     /\ Len(r.errors) = 1
                     /\ r.errors[1].code = "more_than_one_person_in_photo"
                     /\ ~FaceDetectionValidator_mesh_processed(f)
                     /\ validate_early_exit("face", r)
                     /\ stream_early_exit("face", r)
                /\ f.detections = 1 =>
                     /\ r.passed
                     /\ r.errors = <<>>
                     /\ ~validate_early_exit("face", r)
                     /\ ~stream_early_exit("face", r)

\* C17 witness: the Face stage was called on two detections, and on one
\* detection for which the mesh returned no landmarks.
C17_Witness ==
    /\ Len(calls) = 2
    /\ calls[1].stage = "face"
    /\ calls[1].ext.detections = 2
    /\ ~calls[1].result.passed
    /\ calls[2].ext.detections = 1
    /\ ~calls[2].ext.mesh
    /\ calls[2].result.passed

\* C18: _check_pose_angles adds one face_not_looking_straight_at_camera
\* error iff |yaw| > MAX_YAW, one more iff |pitch| > MAX_PITCH, one
\* head_is_tilted error iff |roll| > MAX_ROLL, and nothing else.
C18_PoseAngles ==
    \A i \in 1..Len(calls) :
        calls[i].stage = "_check_pose_angles" =>
            LET a == calls[i].ext
                e == calls[i].result.errors
                yawOut == a.yaw > MAX_YAW \/ a.yaw < 0 - MAX_YAW
                pitchOut == a.pitch > MAX_PITCH \/ a.pitch < 0 - MAX_PITCH
                rollOut == a.roll > MAX_ROLL \/ a.roll < 0 - MAX_ROLL
                straight == (IF yawOut THEN 1 ELSE 0) + (IF pitchOut THEN 1 ELSE 0)
                tilted == IF rollOut THEN 1 ELSE 0
            IN  /\ CountCode(e, "face_not_looking_straight_at_camera") = straight
                /\ CountCode(e, "head_is_tilted") = tilted
                /\ Len(e) = straight + tilted
                /\ calls[i].result.passed <=> (straight + tilted = 0)

\* C18 witness: yaw and pitch exactly at their maxima and roll one degree
\* beyond its maximum gave the single error head_is_tilted.
C18_Witness ==
    /\ Len(calls) = 1
    /\ calls[1].stage = "_check_pose_angles"
    /\ calls[1].ext = [yaw |-> MAX_YAW, pitch |-> 0 - MAX_PITCH,
                       roll |-> MAX_ROLL + 1]
    /\ Len(calls[1].result.errors) = 1
    /\ calls[1].result.errors[1].code = "head_is_tilted"

\* C19: the Geometry stage adds at most one face_not_centered error per
\* call, and adds it iff the x offset or the y offset (|box centre - image
\* centre| over the image width or height) exceeds FACE_CENTER_TOLERANCE; a
\* box centred on the image centre yields offsets (0, 0) and no centering
\* error.
C19_Centering ==
    \A i \in 1..Len(calls) :
        (calls[i].stage = "geometry" /\ "face_bbox" \in DOMAIN calls[i].ctx) =>
            LET bbox == calls[i].ctx["face_bbox"]
                r == calls[i].result
                dx == 2 * bbox[1] + bbox[3] - image.width
                dy == 2 * bbox[2] + bbox[4] - image.height
                tolx == 2 * FACE_CENTER_TOLERANCE * image.width
                toly == 2 * FACE_CENTER_TOLERANCE * image.height
                offx == 100 * dx > tolx \/ 100 * (0 - dx) > tolx
                offy == 100 * dy > toly \/ 100 * (0 - dy) > toly
            IN  /\ CountCode(r.errors, "face_not_centered")
                      = (IF offx \/ offy THEN 1 ELSE 0)
                /\ (dx = 0 /\ dy = 0) =>
                      /\ "center_offset_x" \in DOMAIN r.metadata
                      /\ r.metadata["center_offset_x"] = 0
                      /\ r.metadata["center_offset_y"] = 0

\* C19 witness: a box beyond tolerance in both x and y gave one
\* face_not_centered error.
C19_Witness ==
    /\ Len(calls) = 1
    /\ calls[1].stage = "geometry"
    /\ pc = "check"
    /\ calls[1].ctx["face_bbox"] = <<0, 0, 1, 1>>
    /\ CountCode(calls[1].result.errors, "face_not_centered") = 1

\* C20: in the Format stage the aspect-ratio and resolution checks run
\* whatever the format check found, the blockiness check runs only on a
\* JPEG, each check adds at most one error (unsupported_file_format and
\* low_quality_or_too_compressed never together), a failure inside the
\* blockiness computation adds no error, and the metadata always holds
\* width, height, aspect_ratio, min_dimension and max_dimension.
C20_FormatChecks ==
    \A i \in 1..Len(calls) :
        calls[i].stage = "format" =>
            LET c == calls[i].ctx
                jq == calls[i].ext
                r == calls[i].result
                sniffed == IF "image_bytes" \in DOMAIN c
                           THEN c["image_bytes"] ELSE "None"
                mx == IF image.width > image.height
                      THEN image.width ELSE image.height
                mn == IF image.width > image.height
                      THEN image.height ELSE image.width
                unsupported == IF "image_bytes" \in DOMAIN c
                                  /\ sniffed \notin {"JPEG", "PNG"}
                               THEN 1 ELSE 0
                blocky == IF sniffed = "JPEG" /\ jq.imdecode = "ok"
                             /\ jq.blockiness > JPEG_BLOCKINESS_THRESHOLD
                          THEN 1 ELSE 0
                ratio == IF 100 * mx > (TARGET_ASPECT_RATIO + ASPECT_RATIO_TOLERANCE) * mn
                            \/ 100 * mx < (TARGET_ASPECT_RATIO - ASPECT_RATIO_TOLERANCE) * mn
                         THEN 1 ELSE 0
                small == IF mn < MIN_RESOLUTION THEN 1 ELSE 0
            IN  /\ CountCode(r.errors, "unsupported_file_format") = unsupported
                /\ CountCode(r.errors, "low_quality_or_too_compressed") = blocky
                /\ CountCode(r.errors, "wrong_aspect_ratio") = ratio
                /\ CountCode(r.errors, "resolution_too_low") = small
                /\ Len(r.errors) = unsupported + blocky + ratio + small
                /\ unsupported + blocky <= 1
                /\ DOMAIN r.metadata = {"width", "height", "aspect_ratio",
                                        "min_dimension", "max_dimension"}

\* C20 witness: on a GIF of 480 x 1200 pixels the stage reported the
\* format, the aspect ratio and the resolution; called again without the
\* bytes it reported the last two only.
C20_Witness ==
    /\ Len(calls) = 2
    /\ calls[1].stage = "format"
    /\ image.format = "GIF"
    /\ "image_bytes" \in DOMAIN calls[1].ctx
    /\ Len(calls[1].result.errors) = 3
    /\ calls[2].ctx = EmptyDict
    /\ Len(calls[2].result.errors) = 2

\* C21: the Quality stage's shadow check operates on the face region when
\* the context holds a face_bbox that is valid after clamping to the image
\* bounds, and on the whole image in every other case (face_bbox absent, or
\* present but yielding no region).
C21_ShadowRegion ==
    \A i \in 1..Len(calls) :
        calls[i].stage = "quality" =>
            LET c == calls[i].ctx
                q == calls[i].ext
                r == calls[i].result
                valid == IF "face_bbox" \in DOMAIN c
                         THEN _extract_face_region(image, c["face_bbox"]) # <<>>
                         ELSE FALSE
                measured == IF valid THEN q.shadow_face ELSE q.shadow_full
            IN  /\ r.metadata["shadow_score"] = measured
                /\ CountCode(r.errors, "strong_shadows_on_face")
                      = (IF measured > SHADOW_DIFFERENCE_THRESHOLD THEN 1 ELSE 0)

\* C22: _parse_response takes accessories_detected and filters_detected from
\* the first {...} JSON object of the response text whenever that object is
\* valid JSON, whatever text (further braces included) surrounds or follows
\* it; the keyword fallback is used only when no such object parses.
C22_FirstJsonObject ==
    \A i \in 1..Len(calls) :
        calls[i].stage = "_parse_response" =>
            LET text == calls[i].ext.text
                open == find(text, "{")
                closes == { j \in (open + 1)..Len(text) : text[j] = "}" }
                close == CHOOSE j \in closes : \A k \in closes : j <= k
                object == SubSeq(text, open, close)
            IN  (open > 0 /\ closes # {} /\ json_loads_ok(object)) =>
                    /\ calls[i].result.accessories_detected
                          = json_get_bool(object, "accessories_detected")
                    /\ calls[i].result.filters_detected
                          = json_get_bool(object, "filters_detected")

\* stage `name` returned (a passing result, when passing is asked for)
StageReturned(name, passing) ==
    \E i \in 1..Len(trace) :
        /\ trace[i].name = name
        /\ trace[i].outcome = "returned"
        /\ passing => trace[i].passed

\* C23: in a validate_stream response, landmarks is non-null only if Face
\* passed; guidance has face_bbox exactly when Face passed, pose exactly when
\* Pose returned without throwing, centering and face_size_ratio exactly when
\* Geometry returned without throwing; after a hard stop at Format or Face
\* landmarks is null and guidance is empty.
C23_StreamGuidance ==
    (pc = "done" /\ response.kind = "validate_stream") =>
        /\ response.landmarks # "None" => StageReturned("face", TRUE)
        /\ "face_bbox" \in DOMAIN response.guidance
              <=> StageReturned("face", TRUE)
        /\ "pose" \in DOMAIN response.guidance
              <=> StageReturned("pose", FALSE)
        /\ "centering" \in DOMAIN response.guidance
              <=> StageReturned("geometry", FALSE)
        /\ "face_size_ratio" \in DOMAIN response.guidance
              <=> StageReturned("geometry", FALSE)
        /\ HardStopped => /\ response.landmarks = "None"
                          /\ response.guidance = EmptyDict

\* C23 witness: validate_stream answered after Face passed without mesh
\* landmarks, Pose returned a failed result and Geometry threw: guidance
\* holds face_bbox and pose only, landmarks is null.
C23_Witness ==
    /\ pc = "done"
    /\ response.kind = "validate_stream"
    /\ StageReturned("face", TRUE)
    /\ response.landmarks = "None"
    /\ StageReturned("pose", FALSE)
    /\ \E i \in 1..Len(trace) :
           trace[i].name = "geometry" /\ trace[i].outcome = "threw"
    /\ DOMAIN response.guidance = {"face_bbox", "pose"}

\* C24: when segmentation produces no mask (metadata segmentation_available
\* false), the Background stage returns a passing result with no errors and
\* metadata exactly {segmentation_available: false}; the response of validate
\* then has the errors of the other stages alone, and its status follows
\* from them.
C24_NoMaskPasses ==
    \A i \in 1..Len(trace) :
        (trace[i].name = "background" /\ trace[i].outcome = "returned") =>
            /\ "segmentation_available" \in DOMAIN trace[i].metadata
            /\ ~trace[i].metadata["segmentation_available"] =>
                  /\ trace[i].passed
                  /\ trace[i].errors = <<>>
                  /\ trace[i].metadata = [segmentation_available |-> FALSE]
                  /\ (pc = "done" /\ response.kind = "validate") =>
                        /\ response.errors = to_dicts(ErrorsBefore(i))
                        /\ response.status = "success"
                              <=> ErrorsBefore(i) = <<>>
                        /\ response.metadata["background"]
                              = [segmentation_available |-> FALSE]

\* C24 witness: validate answered "success" on an image for which the
\* segmentation produced no mask.
C24_Witness ==
    /\ pc = "done"
    /\ response.kind = "validate"
    /\ Len(trace) = 6
    /\ trace[6].name = "background"
    /\ trace[6].outcome = "returned"
    /\ trace[6].metadata = [segmentation_available |-> FALSE]
    /\ response.status = "success"

\* the results the stages of the run returned, in execution order
Outputs ==
    [i \in 1..Len(trace) |->
        ValidationResult(trace[i].passed, trace[i].errors, trace[i].metadata)]

NoStageThrew == \A i \in 1..Len(trace) : trace[i].outcome = "returned"

\* the errors of the run without those of the Background stage
ErrorsWithoutBackground ==
    IF \E i \in 1..Len(trace) : trace[i].name = "background"
    THEN ErrorsBefore(CHOOSE i \in 1..Len(trace) : trace[i].name = "background")
    ELSE ErrorsBefore(Len(trace) + 1)

\* C25: for the same input and the same stage outputs, no stage throwing,
\* the errors list of validate_stream is a prefix of the errors list of
\* full-mode validate, namely that list without the Background stage's
\* errors; so validate answering "success" implies validate_stream
\* answering "success".  (stream_loop is what validate_stream answers.)
C25_StreamPrefixOfFull ==
    (pc = "done" /\ RanPipeline /\ NoStageThrew) =>
        LET names == lightweight_validators(_initialize_validators(request.mode))
            streamed == stream_loop(names, Outputs, 1, <<>>)
        IN  /\ request.op = "validate_stream" => response.errors = streamed
            /\ (request.op = "validate" /\ request.mode = MODE_FULL) =>
                  /\ IsPrefix(streamed, response.errors)
                  /\ streamed = to_dicts(ErrorsWithoutBackground)
                  /\ response.status = "success"
                        => stream_status(streamed) = "success"

\* C25 witness: full-mode validate answered with errors of Quality, of
\* Geometry and of Background; validate_stream on the same outputs answers
\* the first two.
C25_Witness ==
    /\ pc = "done"
    /\ RanPipeline
    /\ NoStageThrew
    /\ request.op = "validate"
    /\ request.mode = MODE_FULL
    /\ Len(trace) = 6
    /\ trace[2].errors # <<>>
    /\ trace[5].errors # <<>>
    /\ trace[6].errors # <<>>
    /\ Len(stream_loop(lightweight_validators(_initialize_validators(MODE_FULL)),
                       Outputs, 1, <<>>)) < Len(response.errors)

\* C26: whenever _ensure_model_loaded returns without raising (the thread
\* goes on to self._model.chat), both the model and the tokenizer are
\* non-null; a tokenizer load failure is never followed by a normal return.
C26_ReturnsWithBoth ==
    \A t \in Threads :
        threads[t].pc = "chat" =>
            /\ acc._model # 0
            /\ acc._tokenizer # 0
            /\ ~("tokenizer" \in DOMAIN threads[t].ext
                   /\ threads[t].ext["tokenizer"] = "raises")

\* trace entry i is the Face stage having found one face for which the mesh
\* returned no landmarks
FaceWithoutLandmarks(i) ==
    /\ trace[i].name = "face"
    /\ trace[i].outcome = "returned"
    /\ "landmarks" \in DOMAIN trace[i].metadata
    /\ trace[i].metadata["landmarks"] = "None"

\* the one error Pose and Geometry report without a face
OnlyNoFaceDetected(errors) ==
    Len(errors) = 1 /\ errors[1].code = "no_face_detected"

\* C27: when Face finds one face but the mesh returns no landmarks, Face
\* passes with landmarks null and the loop goes on; Pose, when it returns,
\* adds exactly one no_face_detected error and returns empty metadata;
\* Geometry, when it returns, has run its size and centering checks and no
\* other, with occlusion score 0; the final status is "fail".
C27_FaceWithoutMesh ==
    \A f \in 1..Len(trace) :
        FaceWithoutLandmarks(f) =>
            /\ trace[f].passed
            /\ (LoopOver /\ RanPipeline) => Len(trace) >= f + 2
            /\ \A i \in 1..Len(trace) :
                  /\ (trace[i].name = "pose" /\ trace[i].outcome = "returned") =>
                        /\ ~trace[i].passed
                        /\ OnlyNoFaceDetected(trace[i].errors)
                        /\ trace[i].metadata = EmptyDict
                        /\ pc = "done" => response.status = "fail"
                  /\ (trace[i].name = "geometry" /\ trace[i].outcome = "returned") =>
                        LET bbox == trace[f].metadata["face_bbox"]
                            checked == _check_face_centering(bbox, image.width,
                                           image.height,
                                           _check_face_size(bbox, image.width,
                                               image.height,
                                               _create_result(TRUE, EmptyDict)))
                        IN  /\ trace[i].errors = checked.errors
                            /\ DOMAIN trace[i].metadata =
                                  {"face_size_ratio", "center_offset_x",
                                   "center_offset_y", "occlusion_score"}
                            /\ trace[i].metadata["occlusion_score"] = 0

\* C27 witness: validate answered "fail" with the single error of Pose, after
\* Face passed without landmarks and Geometry returned a passing result with
\* occlusion score 0.
C27_Witness ==
    /\ pc = "done"
    /\ response.kind = "validate"
    /\ Len(trace) = 6
    /\ FaceWithoutLandmarks(3)
    /\ trace[4].outcome = "returned"
    /\ OnlyNoFaceDetected(trace[4].errors)
    /\ trace[5].outcome = "returned"
    /\ trace[5].passed
    /\ trace[5].metadata["occlusion_score"] = 0
    /\ response.status = "fail"
    /\ Len(response.errors) = 1

\* C28: in validate on a full pipeline, when the Face stage throws there is
\* no hard stop: every later stage is invoked, Pose and Geometry with a
\* context that has neither landmarks nor face_bbox; each of the two, when
\* it returns, adds exactly one no_face_detected error and returns empty
\* metadata; the final status is then "fail" with two no_face_detected
\* entries.
C28_FaceThrows ==
    (request.op = "validate" /\ request.mode = MODE_FULL) =>
        \A f \in 1..Len(trace) :
            (trace[f].name = "face" /\ trace[f].outcome = "threw") =>
                /\ (LoopOver /\ RanPipeline) => Len(trace) = Len(StageList)
                /\ \A i \in 1..Len(trace) :
                      trace[i].name \in {"pose", "geometry"} =>
                          /\ "landmarks" \notin DOMAIN trace[i].ctx
                          /\ "face_bbox" \notin DOMAIN trace[i].ctx
                          /\ trace[i].outcome = "returned" =>
                                /\ OnlyNoFaceDetected(trace[i].errors)
                                /\ trace[i].metadata = EmptyDict
                /\ (/\ pc = "done"
                    /\ StageReturned("pose", FALSE)
                    /\ StageReturned("geometry", FALSE)) =>
                      /\ response.status = "fail"
                      /\ CountCode(response.errors, "no_face_detected") = 2

\* C28 witness: validate answered "fail" with exactly the two
\* no_face_detected errors, after Face threw and every other stage passed or
\* reported no face.
C28_Witness ==
    /\ pc = "done"
    /\ response.kind = "validate"
    /\ request.mode = MODE_FULL
    /\ Len(trace) = 6
    /\ trace[3].name = "face"
    /\ trace[3].outcome = "threw"
    /\ trace[4].outcome = "returned"
    /\ trace[5].outcome = "returned"
    /\ trace[6].outcome = "returned"
    /\ response.status = "fail"
    /\ Len(response.errors) = 2
    /\ CountCode(response.errors, "no_face_detected") = 2

\* C29: in both methods Quality is invoked before Face, so the context
\* given to Quality never holds face_bbox and its shadow check measures the
\* whole image: the face-region branch is not reached through the pipeline.
C29_QualityBeforeFace ==
    \A i \in 1..Len(trace) :
        trace[i].name = "quality" =>
            /\ \A j \in 1..Len(trace) : trace[j].name = "face" => i < j
            /\ "face_bbox" \notin DOMAIN trace[i].ctx
            /\ trace[i].outcome = "returned" =>
                  \E q \in QualityInputs :
                      /\ Outputs[i] = QualityValidator_validate(image, trace[i].ctx, q)
                      /\ trace[i].metadata["shadow_score"] = q.shadow_full
                      /\ CountCode(trace[i].errors, "strong_shadows_on_face")
                            = (IF q.shadow_full > SHADOW_DIFFERENCE_THRESHOLD
                               THEN 1 ELSE 0)

\* C29 witness: Quality reported the shadows of the whole image, and Face
\* then found a face.
C29_Witness ==
    /\ Len(trace) >= 3
    /\ trace[2].name = "quality"
    /\ trace[2].outcome = "returned"
    /\ CountCode(trace[2].errors, "strong_shadows_on_face") = 1
    /\ trace[2].metadata["shadow_score"] = 75
    /\ trace[3].name = "face"
    /\ trace[3].outcome = "returned"
    /\ trace[3].passed
    /\ "face_bbox" \in DOMAIN trace[3].metadata

\* C30: for every grayscale image, _check_exposure_contrast never adds both
\* insufficient_lighting and overexposed_or_too_bright to the same result;
\* each of the two is added at most once, and exactly under its condition.
C30_ExposureExclusive ==
    \A i \in 1..Len(calls) :
        calls[i].stage = "_check_exposure_contrast" =>
            LET gray == calls[i].ext.gray
                errors == calls[i].result.errors
                dark == CountCode(errors, "insufficient_lighting")
                bright == CountCode(errors, "overexposed_or_too_bright")
            IN  /\ dark + bright <= 1
                /\ dark = 1 <=>
                      \/ 2 * count_below(gray, BRIGHTNESS_LOW_THRESHOLD) > Len(gray)
                      \/ np_sum(gray) < 60 * Len(gray)
                /\ bright = 1 <=>
                      \/ 2 * count_above(gray, BRIGHTNESS_HIGH_THRESHOLD) > Len(gray)
                      \/ np_sum(gray) > 200 * Len(gray)

\* C30 witness: an image with half of its pixels black and half white gets
\* neither of the two errors; its mean lies between the two limits.
C30_Witness ==
    /\ Len(calls) = 1
    /\ calls[1].stage = "_check_exposure_contrast"
    /\ calls[1].ext.gray = <<0, 0, 255, 255>>
    /\ CountCode(calls[1].result.errors, "insufficient_lighting") = 0
    /\ CountCode(calls[1].result.errors, "overexposed_or_too_bright") = 0

====
